---- MODULE Spec2Model ----
(***************************************************************************)
(* Verification model of the nomad-droplets-autoscaler plugin core:        *)
(*   - the token-bucket rate limiter        (rateLimiter.Consume)          *)
(*   - the retry engine                     (retry)                        *)
(*   - the reserved-address pool            (ReservedAddressesPool)        *)
(*   - the scale-out orchestration          (TargetPlugin.scaleOut)        *)
(* Each subsystem has its own specification (SpecLimiter, SpecRetry,       *)
(* SpecPool, SpecScaleOut) over the shared variables; a specification      *)
(* leaves the variables of the other subsystems at their idle values.      *)
(***************************************************************************)
EXTENDS Integers, Sequences, FiniteSets, TLC

VARIABLES
    now,            \* the clock (quartz.Clock), in clock ticks
    burst,          \* rateLimiter.burst
    current,        \* rateLimiter.current
    rechargePeriod, \* rateLimiter.rechargePeriod
    nextCheck,      \* rateLimiter.nextCheck
    rlPc,           \* position of the Consume call holding rateLimiter.mutex
    rlRes,          \* record of the most recent Consume call
    rtPc,           \* position of the retry call: idle, call, wait, done
    retryAttempts,  \* retry's retryAttempts argument
    retryCount,     \* retry's retryCount
    lastErr,        \* retry's lastErr (NoErr = nil)
    ctxCause,       \* cause the derived context was cancelled with (NoErr = live)
    fCalls,         \* number of invocations of f so far
    fNil,           \* some invocation of f returned nil
    fLast,          \* the last non-nil error f returned (NoErr = none)
    rtResult,       \* what retry returned
    waitCancelled,  \* the caller cancelled while retry waited in its select
    reservedIPs,    \* the provider's reserved addresses, per family: whether
                    \* each has a Droplet (the pool reads nothing else of it)
    prereservedIPs, \* the pool's prereservedIPs / prereservedIPV6s maps:
                    \* per family, address -> expiryTime
    held,           \* per family, the addresses a pool Assign succeeded on
                    \* and the provider has reported assigned ever since
    poolRes,        \* record of the most recent pool call
    soPc,           \* scaleOut's own goroutine: idle, collect (ranging over
                    \* errorChannel), done (returned)
    soTemplate,     \* scaleOut's template argument
    soDiff,         \* scaleOut's diff argument
    prereservedIPV4s, \* the slices the pre-reserve calls returned (<<>> = nil)
    prereservedIPV6s,
    taskPc,         \* position of each creation goroutine
    taskErr,        \* the error each creation goroutine's inner function returned
    wg,             \* the WaitGroup counter
    chanClosed,     \* errorChannel has been closed
    errorList,      \* scaleOut's errorList
    requests,       \* the DropletCreateRequests passed to Droplets().Create,
                    \* each with the task that made it
    crashed,        \* a goroutine panicked: the process is gone
    soResult,       \* what scaleOut returned
    calls,          \* per creation goroutine, the provider and vault calls
                    \* it made, in order
    workerTags,     \* per creation goroutine, the tags attached to the
                    \* droplet it created
    tpPc,           \* position of the Scale or Status call: idle, count
                    \* (in countDroplets), done
    tpOp,           \* which of Scale and Status was called
    tpInput,        \* its inputs: the config, action.Count and the dry-run
                    \* mark of Scale, the answer of IsPoolReady for Status
    tpTemplate,     \* the template createDropletTemplate returned
    tpPages,        \* the pages ListByTag has returned to countDroplets
    total,          \* countDroplets' total
    ready,          \* countDroplets' ready
    tpListCalls,    \* number of ListByTag calls made
    tpResult,       \* what Scale or Status returned
    swPc,           \* position of the orphan sweeper: idle, sweep, done
    swInput,        \* its inputs: the provider's droplets (age, and whether
                    \* they carry the template name), the whitelist and the
                    \* template's init grace period
    swNext,         \* the next droplet of the listing to look at
    swDeleted,      \* the droplets it deleted
    ciPc,           \* PrependShellScriptToUserData: idle, done
    ciInput,        \* its arguments
    ciResult,       \* what it returned
    siPc,           \* scaleIn: idle, pre, delete, stable, post, returned
    siTagPrefix,    \* template.secureIntroductionTagPrefix
    siLog,          \* the calls scaleIn made, in order, with their outcome
    siResult,       \* what scaleIn returned
    doTags,         \* the provider's tags and their resource counts
    tsPc,           \* cleanUpUnusedTags: off, first, sleep, second, sweep, done
    initialTags,    \* the names it recorded before the sleep
    tsFirst,        \* the names the first listing returned
    tsListing,      \* the tags the second listing returned
    tsNext,         \* its position in the second listing
    tsDeleted,      \* the names it called Tags().Delete for
    fKind,          \* RetryOnTransientError: what its f returned last (none, nil, 422, 500, other)
    createdAt,      \* the provider Create calls the pool made, per clock tick
    ipRegion,       \* the region of each of the provider's reserved addresses, per family
    callRegion,     \* the region the last pre-reserve call asked for
    tnPc,           \* generateTagForSecureIntroduction from GenerateSecretId on: idle, issued, created, attached, failed
    tnWrapped,      \* wrappedSecretId, a sequence of characters
    tnPrefix,       \* template.secureIntroductionTagPrefix, a sequence of characters
    tnPassed,       \* the tag names passed to Tags.Create and TagResources
    stDesired,      \* ensureDropletsAreStable's desired (-1: not called)
    stLast,         \* what the last countDroplets of the stability wait returned
    sdPc,           \* shutdownDroplet: idle, poll, select, delete, done
    sdLog,          \* the calls of shutdownDroplet that returned, with their outcome
    sdElapsed,      \* seconds since waitForDropletState was entered
    sdResult,       \* what shutdownDroplet returned
    ddPc,           \* deleteDroplets: idle, list, wait, returned
    ddDroplets,     \* the provider's droplets by ID: name, group tag, whether it exists
    ddIDs,          \* instanceIDs, the RemoteResourceIDs of the pre-hook's nodes
    ddPage,         \* opt.Page (0: not set)
    ddLast,         \* whether the last response was the last page
    ddToDelete,     \* dropletsToDelete
    ddTasks,        \* the shutdown goroutines of the page: ID to poweroff, delete or done
    ddStarted,      \* shutdown tasks started, by droplet ID
    ddCalls,        \* the PowerOff and Delete calls made, in order
    ddResult,       \* what deleteDroplets returned
    upPc,           \* Unpaginate's iterator: idle, request, items, done
    upSizes,        \* the number of items on each page of the listing
    upPage,         \* opt.Page (0: not set)
    upIdx,          \* the position of the range loop in the page's items
    upRequests,     \* the pages f was asked for, in order
    upYielded,      \* the pairs yielded to the consumer, in order
    upResult,       \* how the iteration ended: none, last, error, stopped
    raPc,           \* the tag phase of a scale-out task from tags.Create on: idle, created, attached, failed
    raTag,          \* the tag the task created
    raAttempts,     \* the TagResources calls the task has made
    raNextTry,      \* the time of the next TagResources call
    raNow,          \* the time, in seconds
    raSleepAt,      \* when the clean-up began its sleep
    lePc,           \* each scale-out call's position: idle, leased, returned
    leAddrs,        \* the addresses PrereserveIPs returned to each call
    leTried,        \* the addresses each call has called AssignIPv4 with
    leAt,           \* when each call's PrereserveIPs returned
    leNow,          \* the pool's clock, in minutes
    rcPc,           \* each Consume caller's position: out, lock (at r.mutex.Lock()), wait (at the timer)
    rcReturned      \* the Consume calls that have returned

rlVars == <<now, burst, current, rechargePeriod, nextCheck, rlPc, rlRes>>
retryVars == <<rtPc, retryAttempts, retryCount, lastErr, ctxCause, fCalls,
               fNil, fLast, rtResult, waitCancelled>>

poolVars == <<reservedIPs, prereservedIPs, held, poolRes>>

soVars == <<soPc, soTemplate, soDiff, prereservedIPV4s, prereservedIPV6s, taskPc,
           taskErr, wg, chanClosed, errorList, requests, crashed, soResult,
           calls, workerTags>>

tpVars == <<tpPc, tpOp, tpInput, tpTemplate, tpPages, total, ready,
            tpListCalls, tpResult>>

swVars == <<swPc, swInput, swNext, swDeleted>>

ciVars == <<ciPc, ciInput, ciResult>>

siVars == <<siPc, siTagPrefix, siLog, siResult, doTags, tsPc, initialTags,
           tsFirst, tsListing, tsNext, tsDeleted>>

trVars == <<fKind>>

crVars == <<createdAt>>

pgVars == <<ipRegion, callRegion>>

tnVars == <<tnPc, tnWrapped, tnPrefix, tnPassed>>

stVars == <<stDesired, stLast>>

sdVars == <<sdPc, sdLog, sdElapsed, sdResult>>

ddVars == <<ddPc, ddDroplets, ddIDs, ddPage, ddLast, ddToDelete, ddTasks, ddStarted, ddCalls, ddResult>>

upVars == <<upPc, upSizes, upPage, upIdx, upRequests, upYielded, upResult>>

raVars == <<raPc, raTag, raAttempts, raNextTry, raNow, raSleepAt>>

leVars == <<lePc, leAddrs, leTried, leAt, leNow>>

rcVars == <<rcPc, rcReturned>>

vars == <<rlVars, retryVars, poolVars, soVars, tpVars, swVars, ciVars,
    siVars, trVars, crVars, pgVars, tnVars, stVars, sdVars, ddVars, upVars,
    raVars, leVars, rcVars>>

\* What each specification leaves alone.
NotLimiter == <<retryVars, poolVars, soVars, tpVars, swVars, ciVars, siVars,
    trVars, crVars, pgVars, tnVars, stVars, sdVars, ddVars, upVars, raVars,
    leVars, rcVars>>
NotRetry == <<rlVars, poolVars, soVars, tpVars, swVars, ciVars, siVars,
    trVars, crVars, pgVars, tnVars, stVars, sdVars, ddVars, upVars, raVars,
    leVars, rcVars>>
NotPool == <<retryVars, soVars, tpVars, swVars, ciVars, siVars, trVars,
    crVars, pgVars, tnVars, stVars, sdVars, ddVars, upVars, raVars, leVars,
    rcVars>>
NotScaleOut == <<rlVars, retryVars, poolVars, tpVars, swVars, ciVars, siVars,
    trVars, crVars, pgVars, tnVars, stVars, sdVars, ddVars, upVars, raVars,
    leVars, rcVars>>
NotTarget == <<rlVars, retryVars, poolVars, soVars, swVars, ciVars, siVars,
    trVars, crVars, pgVars, tnVars, stVars, sdVars, ddVars, upVars, raVars,
    leVars, rcVars>>
NotSweeper == <<rlVars, retryVars, poolVars, soVars, tpVars, ciVars, siVars,
    trVars, crVars, pgVars, tnVars, stVars, sdVars, ddVars, upVars, raVars,
    leVars, rcVars>>
NotCloudInit == <<rlVars, retryVars, poolVars, soVars, tpVars, swVars,
    siVars, trVars, crVars, pgVars, tnVars, stVars, sdVars, ddVars, upVars,
    raVars, leVars, rcVars>>
NotScaleIn == <<rlVars, retryVars, poolVars, soVars, tpVars, swVars, ciVars,
    trVars, crVars, pgVars, tnVars, stVars, sdVars, ddVars, upVars, raVars,
    leVars, rcVars>>
NotTransient == <<rlVars, poolVars, soVars, tpVars, swVars, ciVars, siVars,
    crVars, pgVars, tnVars, stVars, sdVars, ddVars, upVars, raVars, leVars,
    rcVars>>
NotCreateRate == <<retryVars, poolVars, soVars, tpVars, swVars, ciVars,
    siVars, trVars, pgVars, tnVars, stVars, sdVars, ddVars, upVars, raVars,
    leVars, rcVars>>
NotPoolRegion == <<retryVars, soVars, tpVars, swVars, ciVars, siVars, trVars,
    crVars, tnVars, stVars, sdVars, ddVars, upVars, raVars, leVars, rcVars>>
NotTagName == <<rlVars, retryVars, poolVars, soVars, tpVars, swVars, ciVars,
    siVars, trVars, crVars, pgVars, stVars, sdVars, ddVars, upVars, raVars,
    leVars, rcVars>>
NotStable == <<rlVars, poolVars, soVars, tpVars, swVars, ciVars, siVars,
    trVars, crVars, pgVars, tnVars, sdVars, ddVars, upVars, raVars, leVars,
    rcVars>>
NotShutdown == <<rlVars, retryVars, poolVars, soVars, tpVars, swVars, ciVars,
    siVars, trVars, crVars, pgVars, tnVars, stVars, ddVars, upVars, raVars,
    leVars, rcVars>>
NotDelete == <<rlVars, retryVars, poolVars, soVars, tpVars, swVars, ciVars,
    siVars, trVars, crVars, pgVars, tnVars, stVars, sdVars, upVars, raVars,
    leVars, rcVars>>
NotUnpaginate == <<rlVars, retryVars, poolVars, soVars, tpVars, swVars,
    ciVars, siVars, trVars, crVars, pgVars, tnVars, stVars, sdVars, ddVars,
    raVars, leVars, rcVars>>
NotTagRace == <<rlVars, retryVars, poolVars, soVars, tpVars, swVars, ciVars,
    trVars, crVars, pgVars, tnVars, stVars, sdVars, ddVars, upVars, leVars,
    rcVars>>
NotLease == <<rlVars, retryVars, soVars, tpVars, swVars, ciVars, siVars,
    trVars, crVars, pgVars, tnVars, stVars, sdVars, ddVars, upVars, raVars,
    rcVars>>
NotConsumers == <<retryVars, poolVars, soVars, tpVars, swVars,
    ciVars, siVars, trVars, crVars, pgVars, tnVars, stVars, sdVars, ddVars,
    upVars, raVars, leVars>>

Min(a, b) == IF a < b THEN a ELSE b

(***************************************************************************)
(* Rate limiter                                                            *)
(***************************************************************************)

\* Bounds of the rate-limiter specification.
MaxTime == 15
MaxBurst == 2
Periods == {2, 5}

NoConsume == [kind |-> "none"]

\* A crediting step that adds at most one token however long the limiter
\* has been idle.
CreditOnce(cur, nc, t, b, p) ==
    IF cur = b THEN [current |-> cur, nextCheck |-> t + p]
    ELSE IF nc > t THEN [current |-> cur, nextCheck |-> nc]
    ELSE [current |-> cur + 1, nextCheck |-> nc + p]

\* The crediting loop at the head of Consume: `cur` tokens, next recharge at
\* `nc`, clock reading `t`.  Yields the limiter fields after the loop.
RECURSIVE CreditLoop(_, _, _, _, _)
CreditLoop(cur, nc, t, b, p) ==
    IF cur = b THEN [current |-> cur, nextCheck |-> t + p]
    ELSE IF nc > t THEN [current |-> cur, nextCheck |-> nc]
    ELSE CreditLoop(cur + 1, nc + p, t, b, p)

\* NewRateLimiter(burst, rechargePeriod, startFull) at clock reading t.
NewRateLimiter(b, p, startFull, t) ==
    [burst |-> b, rechargePeriod |-> p,
     current |-> IF startFull THEN b ELSE 0,
     nextCheck |-> t + p]

\* The limiter as a record, and its fields after a call that found a token.
Limiter == [burst |-> burst, rechargePeriod |-> rechargePeriod,
            current |-> current, nextCheck |-> nextCheck]

\* A timer branch that leaves nextCheck where it was.
TimerFiredKeeps(nc, p) == nc

\* The timer branch of Consume's select: the awaited token is consumed.
TimerFired(nc, p) == nc + p

\* A cancelled wait that moves nextCheck on as the timer branch does.
CtxDoneAdvances(nc, p) == nc + p

\* The ctx.Done() branch of Consume's select: nothing is consumed.
CtxDone(nc, p) == nc

RlIdle ==
    /\ rlPc = "idle"
    /\ rlRes = NoConsume

InitLimiter ==
    /\ now = 0
    /\ \E b \in 0..MaxBurst, p \in Periods, full \in BOOLEAN :
         LET r == NewRateLimiter(b, p, full, 0) IN
           /\ burst = r.burst
           /\ rechargePeriod = r.rechargePeriod
           /\ current = r.current
           /\ nextCheck = r.nextCheck
    /\ RlIdle

\* Consume up to the point where it returns or starts its timer.
ConsumeCall ==
    /\ rlPc = "idle"
    /\ LET c == CreditLoop(current, nextCheck, now, burst, rechargePeriod) IN
         /\ nextCheck' = c.nextCheck
         /\ IF c.current > 0
            THEN /\ current' = c.current - 1
                 /\ rlPc' = "idle"
                 /\ rlRes' = [kind |-> "immediate", start |-> now, end |-> now,
                              preCurrent |-> current, preNext |-> nextCheck,
                              waitCurrent |-> c.current, waitNext |-> c.nextCheck]
            ELSE /\ current' = c.current
                 /\ rlPc' = "waiting"
                 /\ rlRes' = [kind |-> "waiting", start |-> now, end |-> now,
                              preCurrent |-> current, preNext |-> nextCheck,
                              waitCurrent |-> c.current, waitNext |-> c.nextCheck]
    /\ UNCHANGED <<now, burst, rechargePeriod>>

\* The timer created for nextCheck.Sub(now) fires.
ConsumeTimer ==
    /\ rlPc = "waiting"
    /\ now = rlRes.waitNext
    /\ nextCheck' = TimerFired(nextCheck, rechargePeriod)
    /\ rlPc' = "idle"
    /\ rlRes' = [rlRes EXCEPT !.kind = "blocked", !.end = now]
    /\ UNCHANGED <<now, burst, current, rechargePeriod>>

\* The context is cancelled while Consume waits for its timer.
ConsumeCancelled ==
    /\ rlPc = "waiting"
    /\ nextCheck' = CtxDone(nextCheck, rechargePeriod)
    /\ rlPc' = "idle"
    /\ rlRes' = [rlRes EXCEPT !.kind = "cancelled", !.end = now]
    /\ UNCHANGED <<now, burst, current, rechargePeriod>>

\* The clock advances; a timer that is due fires before it advances further.
RlTick ==
    /\ now < MaxTime
    /\ ~(rlPc = "waiting" /\ now >= rlRes.waitNext)
    /\ now' = now + 1
    /\ UNCHANGED <<burst, current, rechargePeriod, nextCheck, rlPc, rlRes>>

(***************************************************************************)
(* Retry engine                                                            *)
(***************************************************************************)

MaxAttempts == 3

NoErr == 0
\* context.Canceled, the value of ctx.Err() once the context is cancelled.
ErrCanceled == 0 - 1
\* The error f returns from its k-th invocation, and a cause of its own
\* that f may pass to the cancel handle at that invocation.
FErr(k) == k
FCause(k) == 100 + k

NoResult == [kind |-> "none", chain |-> {}]

\* errors.Join(cerr, lastErr): the non-nil errors among the two.
Join(a, b) == {e \in {a, b} : e # NoErr}

\* A limit test that lets one attempt too many through.
ReachedLimitLate(count, attempts) == count > attempts

\* The retry limit test after a failed attempt.
ReachedLimit(count, attempts) == count = attempts

\* What retry returns when the limit is reached.
LimitError(last) == [kind |-> "limit", chain |-> {}]

\* What retry returns after leaving the loop on a cancelled context.
GivingUp(ce, last) == [kind |-> "cancelled", chain |-> Join(ce, last)]

RetryIdle ==
    /\ rtPc = "idle"
    /\ retryAttempts = 0
    /\ retryCount = 0
    /\ lastErr = NoErr
    /\ fCalls = 0
    /\ fNil = FALSE
    /\ fLast = NoErr
    /\ rtResult = NoResult
    /\ waitCancelled = FALSE

\* The caller's context may already be cancelled when retry is entered.
InitRetry ==
    /\ RetryIdle
    /\ ctxCause \in {NoErr, ErrCanceled}

\* retry is entered: the ctx.Err() pre-check, then the derived context.
RetryEnter(attempts) ==
    /\ rtPc = "idle"
    /\ retryAttempts' = attempts
    /\ IF ctxCause # NoErr
       THEN /\ rtPc' = "done"
            /\ rtResult' = [kind |-> "ctx", chain |-> {ErrCanceled}]
       ELSE /\ rtPc' = "call"
            /\ UNCHANGED rtResult
    /\ UNCHANGED <<retryCount, lastErr, ctxCause, fCalls, fNil, fLast,
                   waitCancelled>>

\* One pass of the loop body: f is invoked and its result examined.
\* ret: what f returns; cancelWith: whether f calls the cancel handle, with
\* the error it returns ("same") or with another cause ("other").
RetryInvoke(ret, cancelWith) ==
    /\ rtPc = "call"
    /\ fCalls <= MaxAttempts \/ fCalls < retryAttempts
    /\ ret = "nil" => cancelWith # "same"
    /\ LET k == fCalls + 1
           cause == IF ctxCause # NoErr \/ cancelWith = "no" THEN ctxCause
                    ELSE IF cancelWith = "same" THEN FErr(k) ELSE FCause(k)
       IN /\ fCalls' = k
          /\ ctxCause' = cause
          /\ IF ret = "nil"
             THEN /\ fNil' = TRUE
                  /\ rtPc' = "done"
                  /\ rtResult' = [kind |-> "nil", chain |-> {}]
                  /\ UNCHANGED <<retryCount, lastErr, fLast>>
             ELSE /\ fLast' = FErr(k)
                  /\ UNCHANGED fNil
                  /\ IF cause # NoErr
                     THEN /\ rtPc' = "done"
                          /\ rtResult' = GivingUp(ErrCanceled, lastErr)
                          /\ UNCHANGED <<retryCount, lastErr>>
                     ELSE /\ lastErr' = FErr(k)
                          /\ retryCount' = retryCount + 1
                          /\ IF ReachedLimit(retryCount + 1, retryAttempts)
                             THEN /\ rtPc' = "done"
                                  /\ rtResult' = LimitError(FErr(k))
                             ELSE /\ rtPc' = "wait"
                                  /\ UNCHANGED rtResult
    /\ UNCHANGED <<retryAttempts, waitCancelled>>

\* The select between attempts: the ticker fires.
RetryTicker ==
    /\ rtPc = "wait"
    /\ rtPc' = "call"
    /\ UNCHANGED <<retryAttempts, retryCount, lastErr, ctxCause, fCalls, fNil,
                   fLast, rtResult, waitCancelled>>

\* The select between attempts: ctx.Done() is ready.  The break leaves the
\* select statement, not the loop, so the loop body runs again.
RetryCtxDone ==
    /\ rtPc = "wait"
    /\ ctxCause # NoErr
    /\ rtPc' = "call"
    /\ UNCHANGED <<retryAttempts, retryCount, lastErr, ctxCause, fCalls, fNil,
                   fLast, rtResult, waitCancelled>>

\* The caller cancels the context retry was given.
CallerCancels ==
    /\ rtPc \in {"call", "wait"}
    /\ ctxCause = NoErr
    /\ ctxCause' = ErrCanceled
    /\ waitCancelled' = (rtPc = "wait")
    /\ UNCHANGED <<rtPc, retryAttempts, retryCount, lastErr, fCalls, fNil,
                   fLast, rtResult>>

\* RetryOnTransientError: retry(ctx, logger, 10*time.Second, 30, ...)
TransientAttempts == 30

\* What the f handed to RetryOnTransientError returns: nil, a provider
\* error response of status 422 or 500, or an error of another type.
TransientKinds == {"nil", "422", "500", "other"}

\* A test that takes every error for a transient one.
IsTransientAlways(kind) == TRUE

\* errors.As(err, &respErr) && respErr.Response != nil &&
\* respErr.Response.StatusCode == 422
IsTransient(kind) == kind = "422"

TransientIdle == fKind = "none"

\* RetryOnTransientError is called.
TransientEnter ==
    /\ RetryEnter(TransientAttempts)
    /\ UNCHANGED fKind

\* The function RetryOnTransientError hands to retry: f is invoked; nil and
\* a 422 are returned as they are, any other error is passed to cancel first.
TransientInvoke(kind) ==
    /\ fKind' = kind
    /\ RetryInvoke(IF kind = "nil" THEN "nil" ELSE "err",
                   IF kind = "nil" \/ IsTransient(kind) THEN "no" ELSE "same")

\* The stability wait: retry with countDroplets.
defaultRetryLimit == 15
MaxStable == 1

NoCount == [active |-> 0, err |-> FALSE, made |-> FALSE]

\* What countDroplets hands to the stability wait: the ready count, or
\* 0, 0 and the error when ListByTag or CurrentPage failed.
CountResult(ok, counted) ==
    [active |-> IF ok THEN counted ELSE 0, err |-> ~ok, made |-> TRUE]

StableIdle ==
    /\ stDesired = 0 - 1
    /\ stLast = NoCount

\* ensureDropletsAreStable is called.
StableEnter(desired) ==
    /\ RetryEnter(defaultRetryLimit)
    /\ stDesired' = desired
    /\ UNCHANGED stLast

\* The function ensureDropletsAreStable hands to retry: nil when the count
\* equals desired; otherwise the count's error, passed to cancel first, or
\* the error that asks for another attempt.
StableCount(ok, counted) ==
    LET c == CountResult(ok, counted) IN
    /\ stLast' = c
    /\ UNCHANGED stDesired
    /\ RetryInvoke(IF stDesired = c.active THEN "nil" ELSE "err",
                   IF stDesired # c.active /\ c.err THEN "same" ELSE "no")

(***************************************************************************)
(* Reserved-address pool                                                   *)
(***************************************************************************)

\* Bounds of the pool specification.  The clock ticks once per recharge
\* period of the pool's limiter.
MaxAddrs == 2
MaxCount == 2
PoolMaxTime == 1
\* The expiry periods callers pass, in clock ticks, and the droplet IDs.
Expiries == {0, 1}
Droplets == {1, 2}

\* NewRateLimiter(12, 5*time.Second, true, ...) in CreateReservedAddressesPool.
PoolBurst == 12
PoolRecharge == 1

Fams == {"v4", "v6"}
NoDroplet == 0
HasDroplet == 1
Addrs == 1..MaxAddrs

NoPoolCall ==
    [op |-> "none", fam |-> "v4", ok |-> FALSE, err |-> "", addrs |-> {},
     count |-> 0, expiry |-> 0, created |-> 0, ip |-> 0, droplet |-> 0]

TotalAddrs == Len(reservedIPs["v4"]) + Len(reservedIPs["v6"])

\* A scan that takes a pre-reservation for expired at its expiry time.
AdmissibleAtExpiry(list, pre, a, t) ==
    /\ list[a] = NoDroplet
    /\ (a \notin DOMAIN pre \/ t >= pre[a])

\* A scan that admits every unassigned address, pre-reserved or not.
AdmissibleUnassigned(list, pre, a, t) == list[a] = NoDroplet

\* A scan that does not look at the droplet an address is assigned to.
AdmissibleNotPrereserved(list, pre, a, t) == a \notin DOMAIN pre \/ t > pre[a]

\* The scan of PrereserveIPs admits a listed address that has no droplet and
\* is not pre-reserved, or whose pre-reservation has expired.
Admissible(list, pre, a, t) ==
    /\ list[a] = NoDroplet
    /\ (a \notin DOMAIN pre \/ t > pre[a])

\* A test that accepts a pre-reservation whatever its expiry time.
PrereservedEver(pre, ip, t) == ip \in DOMAIN pre

\* The test at the head of AssignIPv4 / AssignIPv6.
Prereserved(pre, ip, t) ==
    /\ ip \in DOMAIN pre
    /\ ~(t > pre[ip])

\* A recording loop that also drops the entries that have expired.
RecordCollecting(pre, addrs, t, expiry) ==
    [a \in {b \in DOMAIN pre : ~(t > pre[b])} \cup addrs |->
        IF a \in addrs THEN t + expiry ELSE pre[a]]

\* A recording loop that forgets to add the expiry period.
RecordNow(pre, addrs, t, expiry) ==
    [a \in (DOMAIN pre) \cup addrs |-> IF a \in addrs THEN t ELSE pre[a]]

\* The recording loop at the end of PrereserveIPs.
Record(pre, addrs, t, expiry) ==
    [a \in (DOMAIN pre) \cup addrs |->
        IF a \in addrs THEN t + expiry ELSE pre[a]]

\* A delete that leaves the map as it is.
DeleteNothing(pre, ip) == pre

\* delete(r.prereservedIPs, ip)
Delete(pre, ip) == [a \in (DOMAIN pre) \ {ip} |-> pre[a]]

\* One Consume call made while the pool's mutex is held: the limiter fields
\* after it, and the clock reading at which it returns.
ConsumeStep(cur, nc, t, b, p, cancelled) ==
    LET c == CreditLoop(cur, nc, t, b, p) IN
      IF c.current > 0
      THEN [current |-> c.current - 1, nextCheck |-> c.nextCheck, now |-> t]
      ELSE IF cancelled
      THEN [current |-> c.current, nextCheck |-> CtxDone(c.nextCheck, p), now |-> t]
      ELSE [current |-> c.current, nextCheck |-> TimerFired(c.nextCheck, p),
            now |-> c.nextCheck]

\* n Consume calls in a row, as the creation loop makes them.
RECURSIVE ConsumeN(_, _, _, _, _, _, _)
ConsumeN(n, cur, nc, t, b, p, cancelled) ==
    IF n = 0 THEN [current |-> cur, nextCheck |-> nc, now |-> t]
    ELSE LET r == ConsumeStep(cur, nc, t, b, p, cancelled) IN
           ConsumeN(n - 1, r.current, r.nextCheck, r.now, b, p, cancelled)

\* r.reservedIPs.Create, n times: n new unassigned addresses.
RECURSIVE Created(_, _)
Created(list, n) == IF n = 0 THEN list ELSE Created(Append(list, NoDroplet), n - 1)

PoolIdle ==
    /\ reservedIPs = [f \in Fams |-> <<>>]
    /\ prereservedIPs = [f \in Fams |-> <<>>]
    /\ held = [f \in Fams |-> {}]
    /\ poolRes = NoPoolCall

\* PrereserveIPs / PrereserveIPV6s for family fam, once the scan of the
\* listing has kept the addresses `picked`.  failAt: the Create call that
\* fails (0: none); cancelled: the context is cancelled when the first Create
\* is due, so a wait for a token returns at once and that Create fails.
PrereservePicked(fam, count, createIfRequired, expiry, picked, failAt, cancelled) ==
    LET list == reservedIPs[fam]
        pre == prereservedIPs[fam]
        need == count - Cardinality(picked)
        fails == failAt \in 1..need
        made == IF fails THEN failAt - 1 ELSE need
        rl == ConsumeN(IF fails THEN failAt ELSE need, current, nextCheck, now,
                       burst, rechargePeriod, cancelled)
        fresh == (Len(list) + 1)..(Len(list) + need)
        base == [NoPoolCall EXCEPT !.op = "prereserve", !.fam = fam]
    IN
    /\ UNCHANGED <<burst, rechargePeriod, rlPc, rlRes, held>>
    /\ IF need = 0
       THEN /\ poolRes' = [base EXCEPT !.ok = TRUE, !.addrs = picked,
                                       !.count = count, !.expiry = expiry]
            /\ prereservedIPs' =
                  [prereservedIPs EXCEPT ![fam] = Record(pre, picked, now, expiry)]
            /\ UNCHANGED <<now, current, nextCheck, reservedIPs>>
       ELSE IF ~createIfRequired
       THEN /\ poolRes' = [base EXCEPT !.err = "insufficient"]
            /\ UNCHANGED <<now, current, nextCheck, reservedIPs, prereservedIPs>>
       ELSE /\ TotalAddrs + made <= MaxAddrs
            /\ rl.now <= PoolMaxTime
            /\ now' = rl.now
            /\ current' = rl.current
            /\ nextCheck' = rl.nextCheck
            /\ reservedIPs' = [reservedIPs EXCEPT ![fam] = Created(list, made)]
            /\ IF fails
               THEN /\ poolRes' = [base EXCEPT !.err = "create", !.created = made]
                    /\ UNCHANGED prereservedIPs
               ELSE /\ poolRes' = [base EXCEPT !.ok = TRUE, !.count = count,
                                      !.expiry = expiry,
                                      !.addrs = picked \cup fresh]
                    /\ prereservedIPs' =
                          [prereservedIPs EXCEPT
                             ![fam] = Record(pre, picked \cup fresh, rl.now, expiry)]

\* getReservedIPs fails: the call returns its error.
PrereserveListFails(fam) ==
    /\ poolRes' = [NoPoolCall EXCEPT !.op = "prereserve", !.fam = fam,
                                     !.err = "list"]
    /\ UNCHANGED <<rlVars, reservedIPs, prereservedIPs, held>>

\* PrereserveIPs / PrereserveIPV6s for family fam, for every count,
\* createIfRequired and expiry a caller may pass and every way the provider
\* may answer.  The scan keeps min(count, number admissible) of the
\* admissible addresses: which ones is decided by the iteration order of
\* the listing map.  Arguments that cannot influence an outcome are held at
\* one value.
Prereserve(fam) ==
    \/ PrereserveListFails(fam)
    \/ LET list == reservedIPs[fam]
           free == {a \in DOMAIN list : Admissible(list, prereservedIPs[fam], a, now)}
       IN \E count \in 1..MaxCount :
            LET kept == Min(count, Cardinality(free))
                need == count - kept
            IN \E picked \in SUBSET free :
                 /\ Cardinality(picked) = kept
                 /\ \/ /\ need = 0
                       /\ \E expiry \in Expiries :
                            PrereservePicked(fam, count, FALSE, expiry, picked,
                                             0, FALSE)
                    \/ /\ need > 0
                       /\ PrereservePicked(fam, count, FALSE, 0, picked, 0, FALSE)
                    \/ /\ need > 0
                       /\ \E expiry \in Expiries :
                            PrereservePicked(fam, count, TRUE, expiry, picked,
                                             0, FALSE)
                    \/ /\ need > 0
                       /\ \E failAt \in 1..need, cancelled \in BOOLEAN :
                            /\ cancelled => failAt = 1
                            /\ PrereservePicked(fam, count, TRUE, 0, picked,
                                                failAt, cancelled)

PrereserveIPs == Prereserve("v4")

PrereserveIPV6s == Prereserve("v6")

\* AssignIPv4 / AssignIPv6 for family fam.  outcome: how the provider's
\* Assign, retried by RetryOnTransientError, ends.
Assign(fam, dropletID, ip, outcome) ==
    LET pre == prereservedIPs[fam]
        base == [NoPoolCall EXCEPT !.op = "assign", !.fam = fam, !.ip = ip]
    IN
    /\ UNCHANGED <<rlVars>>
    /\ IF ~Prereserved(pre, ip, now)
       THEN /\ dropletID = 1
            /\ outcome = "fail"
            /\ poolRes' = [base EXCEPT !.err = "not prereserved"]
            /\ UNCHANGED <<reservedIPs, prereservedIPs, held>>
       ELSE /\ prereservedIPs' = [prereservedIPs EXCEPT ![fam] = Delete(pre, ip)]
            /\ IF outcome = "ok" /\ ip \in DOMAIN reservedIPs[fam]
               THEN /\ poolRes' = [base EXCEPT !.ok = TRUE, !.droplet = dropletID]
                    /\ reservedIPs' = [reservedIPs EXCEPT ![fam][ip] = HasDroplet]
                    /\ held' = [held EXCEPT ![fam] = @ \cup {ip}]
               ELSE /\ poolRes' = [base EXCEPT !.err = "assign",
                                               !.droplet = dropletID]
                    /\ UNCHANGED <<reservedIPs, held>>

AssignIPv4 ==
    \E dropletID \in Droplets, ip \in Addrs, outcome \in {"ok", "fail"} :
      Assign("v4", dropletID, ip, outcome)

AssignIPv6 ==
    \E dropletID \in Droplets, ip \in Addrs, outcome \in {"ok", "fail"} :
      Assign("v6", dropletID, ip, outcome)

\* The provider account gains a reserved address the pool did not create.
ProviderAdds(fam) ==
    /\ TotalAddrs < MaxAddrs
    /\ reservedIPs' = [reservedIPs EXCEPT ![fam] = Append(@, NoDroplet)]
    /\ UNCHANGED <<rlVars, prereservedIPs, held, poolRes>>

\* The provider releases an address (its droplet is destroyed or unassigned).
ProviderReleases(fam, a) ==
    /\ a \in DOMAIN reservedIPs[fam]
    /\ reservedIPs[fam][a] # NoDroplet
    /\ reservedIPs' = [reservedIPs EXCEPT ![fam][a] = NoDroplet]
    /\ held' = [held EXCEPT ![fam] = @ \ {a}]
    /\ UNCHANGED <<rlVars, prereservedIPs, poolRes>>

\* The pool's clock advances.
PoolTick ==
    /\ now < PoolMaxTime
    /\ now' = now + 1
    /\ UNCHANGED <<burst, current, rechargePeriod, nextCheck, rlPc, rlRes, poolVars>>

Regions == {"ams3", "nyc1"}

PoolRegionIdle ==
    /\ ipRegion = [f \in Fams |-> <<>>]
    /\ callRegion = "none"

\* The regions of the addresses of a family once the provider has created
\* the new ones of a call in the region of the request.
RECURSIVE CreatedInRegion(_, _, _)
CreatedInRegion(regions, n, region) ==
    IF n <= 0 THEN regions
    ELSE CreatedInRegion(Append(regions, region), n - 1, region)

\* PrereserveIPs / PrereserveIPV6s(ctx, count, region, ...): region goes into
\* the Create requests and nowhere else.
PrereserveInRegion(fam, region) ==
    /\ Prereserve(fam)
    /\ callRegion' = region
    /\ ipRegion' = [ipRegion EXCEPT ![fam] =
                      CreatedInRegion(@, Len(reservedIPs'[fam]) - Len(@), region)]

\* The provider account gains a reserved address of some region.
ProviderAddsInRegion(fam, region) ==
    /\ ProviderAdds(fam)
    /\ ipRegion' = [ipRegion EXCEPT ![fam] = Append(@, region)]
    /\ UNCHANGED callRegion

\* "only 12 reserved IPs may be created per 60 seconds": the limit, and the
\* 60 seconds in clock ticks (recharge periods of 5 seconds).
CreateLimit == 12
CreateWindow == 12

CreateRateIdle == createdAt = [t \in 0..PoolMaxTime |-> 0]

\* The pool as CreateReservedAddressesPool returns it: the limiter full.
NewPool ==
    /\ now = 0
    /\ burst = PoolBurst
    /\ rechargePeriod = PoolRecharge
    /\ current = NewRateLimiter(PoolBurst, PoolRecharge, TRUE, 0).current
    /\ nextCheck = NewRateLimiter(PoolBurst, PoolRecharge, TRUE, 0).nextCheck
    /\ RlIdle

\* One pass of the creation loop of PrereserveIPs / PrereserveIPV6s:
\* r.rateLimiter.Consume(ctx), then Create.  With the context cancelled a
\* wait for a token returns at once and the request is not sent.
CreateOne(cancelled) ==
    LET c == CreditLoop(current, nextCheck, now, burst, rechargePeriod)
        rl == ConsumeStep(current, nextCheck, now, burst, rechargePeriod,
                          cancelled)
        sent == c.current > 0 \/ ~cancelled
    IN /\ rl.now <= PoolMaxTime
       /\ now' = rl.now
       /\ current' = rl.current
       /\ nextCheck' = rl.nextCheck
       /\ createdAt' = IF sent THEN [createdAt EXCEPT ![rl.now] = @ + 1]
                       ELSE createdAt
       /\ <<current', nextCheck', createdAt'>> # <<current, nextCheck, createdAt>>
       /\ UNCHANGED <<burst, rechargePeriod, rlPc, rlRes>>

\* The Create calls made from tick from on, within one window.
RECURSIVE CreatedIn(_, _)
CreatedIn(from, len) ==
    IF len = 0 \/ from > PoolMaxTime THEN 0
    ELSE createdAt[from] + CreatedIn(from + 1, len - 1)

(***************************************************************************)
(* Scale-out                                                               *)
(***************************************************************************)

\* Bound of the scale-out specification: the largest diff.
MaxDiff == 2

\* The configurations scaleOut's template is built from.  approle,
\* tagPrefix and filename say whether the secure-introduction strings are
\* non-empty; userData is empty, literal user data, or the path of a file.
ConfigData ==
    {[tags |-> <<"foo", "bar">>, userData |-> ""],
     [tags |-> <<>>, userData |-> "inline"],
     [tags |-> <<"foo", "bar">>, userData |-> "path"]}
ConfigFlags ==
    [reserveIPv4 : BOOLEAN, reserveIPv6 : BOOLEAN, approle : BOOLEAN,
     tagPrefix : BOOLEAN, filename : BOOLEAN, ipv6 : BOOLEAN]
Config(data, flags) ==
    [name |-> "mydropletname", region |-> "lon1", size |-> "s1",
     vpc |-> "vpc-uuid", snapshot |-> 12345, tags |-> data.tags,
     userData |-> data.userData, reserveIPv4 |-> flags.reserveIPv4,
     reserveIPv6 |-> flags.reserveIPv6, approle |-> flags.approle,
     tagPrefix |-> flags.tagPrefix, filename |-> flags.filename,
     ipv6 |-> flags.ipv6]
Configs == {Config(data, flags) : data \in ConfigData, flags \in ConfigFlags}

\* The check with the test of the tag prefix the wrong way round.
AcceptedUnlessTagPrefix(config) ==
    ~(/\ config.approle
      /\ config.tagPrefix
      /\ ~config.reserveIPv4
      /\ ~config.reserveIPv6)

\* The secure-introduction check of createDropletTemplate.
Accepted(config) ==
    ~(/\ config.approle
      /\ ~config.tagPrefix
      /\ ~config.reserveIPv4
      /\ ~config.reserveIPv6)

\* A tag list without the group name.
TagsOnly(name, tags) == tags

\* tags := []string{name}; tags = append(tags, strings.Split(...)...)
TemplateTags(name, tags) == <<name>> \o tags

createDropletTemplate(config) ==
    [name |-> config.name,
     region |-> config.region,
     size |-> config.size,
     vpc |-> config.vpc,
     snapshotID |-> config.snapshot,
     tags |-> TemplateTags(config.name, config.tags),
     userData |-> config.userData,
     reserveIPv4Addresses |-> config.reserveIPv4,
     reserveIPv6Addresses |-> config.reserveIPv6,
     secureIntroductionAppRole |-> config.approle,
     secureIntroductionTagPrefix |-> config.tagPrefix,
     secureIntroductionFilename |-> config.filename,
     ipv6 |-> config.ipv6]

NoConfig ==
    [name |-> "", region |-> "", size |-> "", vpc |-> "", snapshot |-> 0,
     tags |-> <<>>, userData |-> "", reserveIPv4 |-> FALSE,
     reserveIPv6 |-> FALSE, approle |-> FALSE, tagPrefix |-> FALSE,
     filename |-> FALSE, ipv6 |-> FALSE]

NoTemplate == createDropletTemplate(NoConfig)

\* Addresses: the empty string, and the i-th address of each pre-reserved
\* slice.
NoAddr == 0
V4Addr(i) == 10 + i
V6Addr(i) == 20 + i

\* The addresses Droplets().Get reports for the droplet of task i.
DropletV4(i) == 30 + i
DropletV6(i) == 40 + i

\* vault.GenerateSecretId: the wrapped secret, bound to the addresses given.
GenerateSecretId(ipv4, ipv6) == [ipv4 |-> ipv4, ipv6 |-> ipv6]

\* fmt.Sprintf("%v%v", template.secureIntroductionTagPrefix, wrappedSecretId)
TagWithSecretID(prefix, wrappedSecretId) ==
    [prefix |-> prefix, secret |-> wrappedSecretId]

\* A call to the provider or to the vault: its addresses are the arguments
\* of an assignment or of GenerateSecretId, or those in the tag's secret.
Call(op, ok, ipv4, ipv6) == [op |-> op, ok |-> ok, ipv4 |-> ipv4, ipv6 |-> ipv6]

Tasks == 1..MaxDiff

NoTaskErr == [task |-> 0, at |-> "none"]
TaskError(i, stage) == [task |-> i, at |-> stage]

NoScaleOutResult == [kind |-> "none", errors |-> {}]

\* createRequest.UserData before secure introduction: the content of the
\* file template.userData names, or the string itself.
ReadUserData(userData) == IF userData = "path" THEN "content" ELSE userData

\* A string of user data: its text, the script put before it, and the
\* addresses the wrapped secret in that script is bound to.
UserData(text, script, ipv4, ipv6) ==
    [text |-> text, script |-> script, ipv4 |-> ipv4, ipv6 |-> ipv6]

EmptyUserData == UserData("", "none", NoAddr, NoAddr)

\* generateUserDataForSecureIntroduction, when it succeeds.
generateUserDataForSecureIntroduction(text, allowedIPv4, allowedIPv6, template) ==
    IF allowedIPv4 # NoAddr \/ allowedIPv6 # NoAddr
    THEN UserData(text, "secret", allowedIPv4, allowedIPv6)
    ELSE IF template.secureIntroductionTagPrefix
    THEN UserData(text, "tagfetch", NoAddr, NoAddr)
    ELSE UserData(text, "none", NoAddr, NoAddr)

\* The DropletCreateRequest of task i.
CreateRequest(i, template, userData) ==
    [task |-> i,
     name |-> template.name,
     region |-> template.region,
     size |-> template.size,
     vpc |-> template.vpc,
     image |-> template.snapshotID,
     tags |-> template.tags,
     userData |-> userData]

\* The calls of a task that assigns its addresses before it creates the
\* droplet.
StagesAssignFirst(template) ==
    (IF template.reserveIPv4Addresses THEN <<"assign4">> ELSE <<>>)
    \o (IF template.reserveIPv6Addresses THEN <<"assign6">> ELSE <<>>)
    \o <<"create">>
    \o (IF template.secureIntroductionAppRole
           /\ template.secureIntroductionTagPrefix
        THEN <<"tagip", "tagsecret", "tagcreate", "tagattach">> ELSE <<>>)

\* The calls a task would make from Create on if the tag phase were left
\* out whenever an address reservation is configured.
StagesEitherChannel(template) ==
    <<"create">>
    \o (IF template.reserveIPv4Addresses THEN <<"assign4">> ELSE <<>>)
    \o (IF template.reserveIPv6Addresses THEN <<"assign6">> ELSE <<>>)
    \o (IF template.secureIntroductionAppRole
           /\ template.secureIntroductionTagPrefix
           /\ ~template.reserveIPv4Addresses
           /\ ~template.reserveIPv6Addresses
        THEN <<"tagip", "tagsecret", "tagcreate", "tagattach">> ELSE <<>>)

\* The calls a task makes from Create on, in order.
Stages(template) ==
    <<"create">>
    \o (IF template.reserveIPv4Addresses THEN <<"assign4">> ELSE <<>>)
    \o (IF template.reserveIPv6Addresses THEN <<"assign6">> ELSE <<>>)
    \o (IF template.secureIntroductionAppRole
           /\ template.secureIntroductionTagPrefix
        THEN <<"tagip", "tagsecret", "tagcreate", "tagattach">> ELSE <<>>)

\* The call of one stage by task i: the tag stages are those of
\* generateTagForSecureIntroduction, working on the addresses
\* Droplets().Get reports (the IPv6 one only if template.ipv6).
StageCall(stage, ok, i, template, pre4, pre6) ==
    LET ipv4 == DropletV4(i)
        ipv6 == IF template.ipv6 THEN DropletV6(i) ELSE NoAddr
    IN CASE stage = "create" -> Call("Create", ok, NoAddr, NoAddr)
         [] stage = "assign4" -> Call("AssignIPv4", ok, pre4[i], NoAddr)
         [] stage = "assign6" -> Call("AssignIPv6", ok, NoAddr, pre6[i])
         [] stage = "tagip" -> Call("Get", ok, ipv4, ipv6)
         [] stage = "tagsecret" -> Call("GenerateSecretId", ok, ipv4, ipv6)
         [] stage = "tagcreate" -> Call("Tags.Create", ok, ipv4, ipv6)
         [] stage = "tagattach" -> Call("TagResources", ok, ipv4, ipv6)

ScaleOutIdle ==
    /\ soPc = "idle"
    /\ soTemplate = NoTemplate
    /\ soDiff = 0
    /\ prereservedIPV4s = <<>>
    /\ prereservedIPV6s = <<>>
    /\ taskPc = [i \in Tasks |-> "off"]
    /\ taskErr = [i \in Tasks |-> NoTaskErr]
    /\ wg = 0
    /\ chanClosed = FALSE
    /\ errorList = <<>>
    /\ requests = {}
    /\ crashed = FALSE
    /\ soResult = NoScaleOutResult
    /\ calls = [i \in Tasks |-> <<>>]
    /\ workerTags = [i \in Tasks |-> {}]

\* scaleOut up to the point where it ranges over errorChannel: the
\* pre-reserve calls (pre4Ok, pre6Ok: whether they succeed), then one
\* goroutine per worker and the goroutine that waits to close the channel.
\* Choices that cannot influence the outcome are held at one value.
ScaleOutEnter(config, diff, pre4Ok, pre6Ok) ==
    LET template == createDropletTemplate(config) IN
    /\ soPc = "idle"
    /\ ~crashed
    /\ Accepted(config)
    /\ ~config.approle => (~config.tagPrefix /\ config.filename)
    /\ ~config.reserveIPv4 => pre4Ok
    /\ (~config.reserveIPv6 \/ ~pre4Ok) => pre6Ok
    /\ ~(config.approle /\ config.tagPrefix) => ~config.ipv6
    /\ soTemplate' = template
    /\ soDiff' = diff
    /\ UNCHANGED <<taskErr, chanClosed, errorList, requests, crashed, calls,
                   workerTags>>
    /\ IF ~pre4Ok
       THEN /\ soPc' = "done"
            /\ soResult' = [kind |-> "prereserve4", errors |-> {}]
            /\ UNCHANGED <<prereservedIPV4s, prereservedIPV6s, taskPc, wg>>
       ELSE /\ prereservedIPV4s' = IF template.reserveIPv4Addresses
                                   THEN [i \in 1..diff |-> V4Addr(i)] ELSE <<>>
            /\ IF ~pre6Ok
               THEN /\ soPc' = "done"
                    /\ soResult' = [kind |-> "prereserve6", errors |-> {}]
                    /\ UNCHANGED <<prereservedIPV6s, taskPc, wg>>
               ELSE /\ prereservedIPV6s' = IF template.reserveIPv6Addresses
                                           THEN [i \in 1..diff |-> V6Addr(i)]
                                           ELSE <<>>
                    /\ taskPc' = [i \in Tasks |-> IF i <= diff THEN "run" ELSE "off"]
                    /\ wg' = diff
                    /\ soPc' = "collect"
                    /\ UNCHANGED soResult

\* The inner function of task i, from its first statement to its return,
\* where the deferred wg.Done() runs.  failAt: "none", "secure"
\* (vault.GenerateSecretId fails for the user data), "prepend"
\* (PrependShellScriptToUserData fails) or the call of Stages that fails.
TaskRun(i, failAt) ==
    LET t == soTemplate
        text == ReadUserData(t.userData)
        secure == t.secureIntroductionAppRole /\ t.secureIntroductionFilename
        indexed == secure /\ t.reserveIPv4Addresses
        allowedIPv4 == IF t.reserveIPv4Addresses THEN prereservedIPV4s[i] ELSE NoAddr
        allowedIPv6 == IF t.reserveIPv4Addresses THEN prereservedIPV6s[i] ELSE NoAddr
        userData == IF secure
                    THEN generateUserDataForSecureIntroduction(
                             text, allowedIPv4, allowedIPv6, t)
                    ELSE UserData(text, "none", NoAddr, NoAddr)
        stages == Stages(t)
        before == IF secure /\ userData.script = "secret"
                  THEN <<Call("GenerateSecretId", failAt # "secure",
                              allowedIPv4, allowedIPv6)>>
                  ELSE <<>>
        last == IF failAt = "none" THEN Len(stages)
                ELSE CHOOSE k \in DOMAIN stages : stages[k] = failAt
        made == [k \in 1..last |->
                   StageCall(stages[k], k < last \/ failAt = "none", i, t,
                             prereservedIPV4s, prereservedIPV6s)]
        attached == {TagWithSecretID(t.secureIntroductionTagPrefix,
                                     GenerateSecretId(made[k].ipv4, made[k].ipv6)) :
                       k \in {j \in 1..last : made[j].op = "TagResources"
                                               /\ made[j].ok}}
    IN
    /\ taskPc[i] = "run"
    /\ ~crashed
    /\ UNCHANGED <<soPc, soTemplate, soDiff, prereservedIPV4s, prereservedIPV6s,
                   chanClosed, errorList, soResult>>
    /\ wg' = wg - 1
    /\ IF indexed /\ i > Len(prereservedIPV6s)
       THEN \* prereservedIPV6s[i]: index out of range
            /\ failAt = "none"
            /\ crashed' = TRUE
            /\ taskPc' = [taskPc EXCEPT ![i] = "panic"]
            /\ UNCHANGED <<taskErr, requests, calls, workerTags>>
       ELSE /\ UNCHANGED crashed
            /\ \/ failAt = "none"
               \/ failAt = "secure" /\ secure /\ userData.script = "secret"
               \/ failAt = "prepend" /\ secure /\ userData.script # "none"
               \/ \E k \in DOMAIN stages : failAt = stages[k]
            /\ IF failAt \in {"secure", "prepend"}
               THEN /\ UNCHANGED <<requests, workerTags>>
                    /\ calls' = [calls EXCEPT ![i] = before]
               ELSE /\ requests' = requests \cup {CreateRequest(i, t, userData)}
                    /\ calls' = [calls EXCEPT ![i] = before \o made]
                    /\ workerTags' = [workerTags EXCEPT ![i] = attached]
            /\ IF failAt = "none"
               THEN /\ taskPc' = [taskPc EXCEPT ![i] = "exit"]
                    /\ UNCHANGED taskErr
               ELSE /\ taskPc' = [taskPc EXCEPT ![i] = "send"]
                    /\ taskErr' = [taskErr EXCEPT ![i] = TaskError(i, failAt)]

\* errorChannel <- err meets the receive of scaleOut's range loop.
TaskSend(i) ==
    /\ taskPc[i] = "send"
    /\ ~crashed
    /\ soPc = "collect"
    /\ ~chanClosed
    /\ errorList' = Append(errorList, taskErr[i])
    /\ taskPc' = [taskPc EXCEPT ![i] = "exit"]
    /\ UNCHANGED <<soPc, soTemplate, soDiff, prereservedIPV4s, prereservedIPV6s,
                   taskErr, wg, chanClosed, requests, crashed, soResult,
                   calls, workerTags>>

\* errorChannel <- err on the closed channel: the goroutine panics.
TaskSendOnClosed(i) ==
    /\ taskPc[i] = "send"
    /\ ~crashed
    /\ chanClosed
    /\ crashed' = TRUE
    /\ taskPc' = [taskPc EXCEPT ![i] = "panic"]
    /\ UNCHANGED <<soPc, soTemplate, soDiff, prereservedIPV4s, prereservedIPV6s,
                   taskErr, wg, chanClosed, errorList, requests, soResult,
                   calls, workerTags>>

\* A closing goroutine that does not wait for the tasks.
CloserClosesAtOnce ==
    /\ soPc = "collect"
    /\ ~crashed
    /\ ~chanClosed
    /\ chanClosed' = TRUE
    /\ UNCHANGED <<soPc, soTemplate, soDiff, prereservedIPV4s, prereservedIPV6s,
                   taskPc, taskErr, wg, errorList, requests, crashed, soResult,
                   calls, workerTags>>

\* wg.Wait() returns in the closing goroutine, which closes errorChannel.
CloserCloses ==
    /\ soPc = "collect"
    /\ ~crashed
    /\ ~chanClosed
    /\ wg = 0
    /\ chanClosed' = TRUE
    /\ UNCHANGED <<soPc, soTemplate, soDiff, prereservedIPV4s, prereservedIPV6s,
                   taskPc, taskErr, wg, errorList, requests, crashed, soResult,
                   calls, workerTags>>

\* errors.Join(errorList...): the errors of the list.
JoinErrors(list) == {list[k] : k \in DOMAIN list}

\* The range loop ends on the closed channel; scaleOut returns the joined
\* errors, or goes on to the stability check when it collected none.
CollectEnds ==
    /\ soPc = "collect"
    /\ ~crashed
    /\ chanClosed
    /\ soPc' = "done"
    /\ soResult' = IF Len(errorList) > 0
                   THEN [kind |-> "joined", errors |-> JoinErrors(errorList)]
                   ELSE [kind |-> "created", errors |-> {}]
    /\ UNCHANGED <<soTemplate, soDiff, prereservedIPV4s, prereservedIPV6s, taskPc,
                   taskErr, wg, chanClosed, errorList, requests, crashed,
                   calls, workerTags>>

\* ensureDropletsAreStable returns, and scaleOut with it: nil when the
\* provider came to report desired active droplets, the error otherwise.
StabilityWaitEnds(stable) ==
    /\ soPc = "done"
    /\ ~crashed
    /\ soResult.kind = "created"
    /\ soPc' = "returned"
    /\ soResult' = [kind |-> IF stable THEN "nil" ELSE "unstable", errors |-> {}]
    /\ UNCHANGED <<soTemplate, soDiff, prereservedIPV4s, prereservedIPV6s, taskPc,
                   taskErr, wg, chanClosed, errorList, requests, crashed,
                   calls, workerTags>>

(***************************************************************************)
(* Scale and Status                                                        *)
(***************************************************************************)

\* Bounds of the Scale and Status specification: droplets on a page, pages
\* of a listing, and the largest action.Count.
MaxPageSize == 2
MaxPages == 2
MaxDesired == 3

\* godo.Droplet.Status values.
Statuses == {"active", "new"}

\* The pages ListByTag can return: the statuses of the droplets on it.
Pages == UNION {[1..n -> Statuses] : n \in 0..MaxPageSize}

isReady(status) == status = "active"

\* countIf(droplets, isReady)
RECURSIVE countIf(_)
countIf(droplets) ==
    IF droplets = <<>> THEN 0
    ELSE (IF isReady(Head(droplets)) THEN 1 ELSE 0) + countIf(Tail(droplets))

\* A running count that keeps only the last page.
AddLast(sum, n) == n

\* total = total + int64(len(droplets)); ready = ready + countIf(...)
Add(sum, n) == sum + n

\* calculateDirection(target, desired)
calculateDirection(target, desired) ==
    IF desired < target THEN [diff |-> target - desired, direction |-> "in"]
    ELSE IF desired > target THEN [diff |-> desired - target, direction |-> "out"]
    ELSE [diff |-> 0, direction |-> ""]

NoInput == [config |-> NoConfig, count |-> 0, dryRun |-> FALSE, poolReady |-> FALSE]

\* What Scale or Status returned: an error (kind says which), nil from
\* Scale (kind "in", "out", "noop" or "dryrun", with diff), or the
\* TargetStatus of Status (kind "status", with ready and count).
TargetResult(kind, isReadyNow, count, diff) ==
    [kind |-> kind, ready |-> isReadyNow, count |-> count, diff |-> diff]
NoTargetResult == TargetResult("none", FALSE, 0, 0)

TargetIdle ==
    /\ tpPc = "idle"
    /\ tpOp = "none"
    /\ tpInput = NoInput
    /\ tpTemplate = NoTemplate
    /\ tpPages = <<>>
    /\ total = 0
    /\ ready = 0
    /\ tpListCalls = 0
    /\ tpResult = NoTargetResult

\* createDropletTemplate as Scale and Status call it: on an error they
\* return it, otherwise they go on to countDroplets.
TemplateStep(config) ==
    IF Accepted(config)
    THEN /\ tpTemplate' = createDropletTemplate(config)
         /\ tpPc' = "count"
         /\ UNCHANGED tpResult
    ELSE /\ tpPc' = "done"
         /\ tpResult' = TargetResult("template error", FALSE, 0, 0)
         /\ UNCHANGED tpTemplate

\* Scale up to its call of countDroplets.
Scale(config, count, dryRun) ==
    /\ tpPc = "idle"
    /\ tpOp' = "scale"
    /\ tpInput' = [NoInput EXCEPT !.config = config, !.count = count,
                                  !.dryRun = dryRun]
    /\ UNCHANGED <<tpPages, total, ready, tpListCalls>>
    /\ IF dryRun
       THEN /\ tpPc' = "done"
            /\ tpResult' = TargetResult("dryrun", FALSE, 0, 0)
            /\ UNCHANGED tpTemplate
       ELSE TemplateStep(config)

\* Status up to its call of countDroplets.  poolReady: the answer of
\* clusterUtils.IsPoolReady; poolErr: it failed.
Status(config, poolReady, poolErr) ==
    /\ tpPc = "idle"
    /\ tpOp' = "status"
    /\ tpInput' = [NoInput EXCEPT !.config = config, !.poolReady = poolReady]
    /\ UNCHANGED <<tpPages, total, ready, tpListCalls>>
    /\ IF poolErr
       THEN /\ tpPc' = "done"
            /\ tpResult' = TargetResult("readiness error", FALSE, 0, 0)
            /\ UNCHANGED tpTemplate
       ELSE IF ~poolReady
       THEN /\ tpPc' = "done"
            /\ tpResult' = TargetResult("status", poolReady, 0, 0)
            /\ UNCHANGED tpTemplate
       ELSE TemplateStep(config)

\* What Scale and Status do with the counts of countDroplets.
Counted(op, t, r, desired) ==
    IF op = "status"
    THEN TargetResult("status", t = r, t, 0)
    ELSE LET d == calculateDirection(t, desired)
         IN TargetResult(IF d.direction = "" THEN "noop" ELSE d.direction,
                         FALSE, 0, d.diff)

\* One turn of countDroplets' loop: ListByTag returns page (or fails), and
\* the response says whether it is the last page (links: "last", "more",
\* or "bad" when resp.Links.CurrentPage() fails).  After the last page the
\* caller goes on: Status returns the TargetStatus, Scale picks the
\* direction and calls scaleIn or scaleOut.
CountPage(page, listOk, links) ==
    /\ tpPc = "count"
    /\ tpListCalls' = tpListCalls + 1
    /\ UNCHANGED <<tpOp, tpInput, tpTemplate>>
    /\ IF ~listOk
       THEN /\ links = "last"
            /\ page = <<>>
            /\ tpPc' = "done"
            /\ tpResult' = TargetResult("describe error", FALSE, 0, 0)
            /\ UNCHANGED <<tpPages, total, ready>>
       ELSE /\ tpPages' = Append(tpPages, page)
            /\ total' = Add(total, Len(page))
            /\ ready' = Add(ready, countIf(page))
            /\ CASE links = "last" ->
                      /\ tpPc' = "done"
                      /\ tpResult' = Counted(tpOp, total', ready', tpInput.count)
                 [] links = "bad" ->
                      /\ tpPc' = "done"
                      /\ tpResult' = TargetResult("describe error", FALSE, 0, 0)
                 [] links = "more" ->
                      /\ Len(tpPages) + 1 < MaxPages
                      /\ UNCHANGED <<tpPc, tpResult>>

(***************************************************************************)
(* Orphan sweeper                                                          *)
(***************************************************************************)

\* Bounds of the orphan-sweeper specification: droplets at the provider,
\* and the largest age and grace period, in clock ticks.
MaxOrphans == 2
MaxAge == 2

OrphanIDs == 1..MaxOrphans

\* The provider's droplets: age, and whether tagged with the template name.
OrphanDroplets == [OrphanIDs -> [age : 0..MaxAge, tagged : BOOLEAN]]

NoSweep == [droplets |-> [d \in OrphanIDs |-> [age |-> 0, tagged |-> FALSE]],
            whitelist |-> {}, grace |-> 0]

\* A droplet is deleted whatever its age.
OrphanedAtAnyAge(age, grace, whitelisted) == ~whitelisted

\* The droplet is older than the init grace period and not whitelisted.
Orphaned(age, grace, whitelisted) == age > grace /\ ~whitelisted

\* The listing by template name, in the order of the pages.
RECURSIVE Listing(_, _)
Listing(droplets, d) ==
    IF d > MaxOrphans THEN <<>>
    ELSE (IF droplets[d].tagged THEN <<d>> ELSE <<>>) \o Listing(droplets, d + 1)

SweeperIdle ==
    /\ swPc = "idle"
    /\ swInput = NoSweep
    /\ swNext = 1
    /\ swDeleted = {}

\* deleteOrphanedDroplets is called.
SweepBegins(droplets, whitelist, grace) ==
    /\ swPc = "idle"
    /\ swInput' = [droplets |-> droplets, whitelist |-> whitelist, grace |-> grace]
    /\ swPc' = "sweep"
    /\ UNCHANGED <<swNext, swDeleted>>

\* It looks at the next droplet of the listing and deletes it if orphaned.
SweepDroplet ==
    LET listing == Listing(swInput.droplets, 1) IN
    /\ swPc = "sweep"
    /\ swNext <= Len(listing)
    /\ LET d == listing[swNext] IN
       swDeleted' = IF Orphaned(swInput.droplets[d].age, swInput.grace,
                                d \in swInput.whitelist)
                    THEN swDeleted \cup {d} ELSE swDeleted
    /\ swNext' = swNext + 1
    /\ UNCHANGED <<swPc, swInput>>

\* The listing is exhausted.
SweepEnds ==
    /\ swPc = "sweep"
    /\ swNext > Len(Listing(swInput.droplets, 1))
    /\ swPc' = "done"
    /\ UNCHANGED <<swInput, swNext, swDeleted>>

(***************************************************************************)
(* User data (cloud-init)                                                  *)
(***************************************************************************)

\* Bounds of the user-data specification: lines of a script after its
\* first, and parts of an archive.
MaxLines == 3
MaxParts == 2

\* A string is the sequence of its lines ("a\nb\n" is <<"a", "b", "">>); a
\* line is a command or blank.
Bodies == UNION {[1..n -> {"x", ""}] : n \in 0..MaxLines}

\* Shell scripts: strings that start with "#!".
Scripts == {<<"#!/bin/sh">> \o b : b \in Bodies}

CloudConfigPart(type, content) == [type |-> type, content |-> content]

\* The parts an original archive is made of, as yaml.Unmarshal reads them.
OriginalParts ==
    {CloudConfigPart("text/cloud-boothook", <<"#!/bin/sh", "x", "">>),
     CloudConfigPart("text/cloud-config", <<"x", "", "x", "">>),
     CloudConfigPart("text/cloud-config", <<"x", "", "", "x", "">>)}

Archives == UNION {[1..n -> OriginalParts] : n \in 0..MaxParts}

\* The original user data: its format (what it starts with once trimmed;
\* "malformed" has the header of an archive and no YAML list after it),
\* whether white space surrounds it, and its text or its parts.
UserDataText(format, padded, text, parts) ==
    [format |-> format, padded |-> padded, text |-> text, parts |-> parts]

Originals ==
    {UserDataText("empty", padded, <<>>, <<>>) : padded \in BOOLEAN}
    \cup {UserDataText("script", padded, text, <<>>) :
            padded \in BOOLEAN, text \in Scripts}
    \cup {UserDataText("archive", FALSE, <<>>, parts) : parts \in Archives}
    \cup {UserDataText("mime", FALSE, <<"Content-Type:">>, <<>>),
          UserDataText("malformed", FALSE, <<>>, <<>>),
          UserDataText("other", FALSE, <<"x">>, <<>>)}

\* strings.TrimRight(s, "\n"), and the end of strings.TrimSpace.
RECURSIVE TrimRight(_)
TrimRight(lines) ==
    IF lines # <<>> /\ lines[Len(lines)] = ""
    THEN TrimRight(SubSeq(lines, 1, Len(lines) - 1))
    ELSE lines

\* blankLine.ReplaceAllLiteralString(text, "") with blankLine = (?m)^\s*$:
\* \s matches the line ends too, so a match runs from the start of a blank
\* line to the end of the last blank line that follows it, and the lines
\* of the match become one empty line.
RECURSIVE ReplaceBlankLines(_)
ReplaceBlankLines(lines) ==
    IF lines = <<>> THEN <<>>
    ELSE IF Len(lines) >= 2 /\ lines[1] = "" /\ lines[2] = ""
    THEN ReplaceBlankLines(Tail(lines))
    ELSE <<Head(lines)>> \o ReplaceBlankLines(Tail(lines))

\* The lines of a part's content block as CloudConfigArchive.String()
\* writes them.
ContentBlock(content) == TrimRight(ReplaceBlankLines(content))

\* CloudConfigArchive.String(): the parts as written.
String(parts) ==
    [k \in DOMAIN parts |->
       CloudConfigPart(parts[k].type, ContentBlock(parts[k].content))]

\* strings.TrimSpace of the original user data.
TrimSpace(original) ==
    [original EXCEPT !.padded = FALSE, !.text = TrimRight(original.text)]

NoPrepend == [ok |-> FALSE, err |-> "none", archive |-> <<>>]

\* PrependShellScriptToUserData(originalUserData, script)
PrependShellScriptToUserData(originalUserData, script) ==
    LET original == TrimSpace(originalUserData)
        cca == <<CloudConfigPart("text/x-shellscript", script)>>
        done(parts) == [ok |-> TRUE, err |-> "", archive |-> String(parts)]
        failed(err) == [ok |-> FALSE, err |-> err, archive |-> <<>>]
    IN IF original.format = "empty" THEN done(cca)
       ELSE IF original.format = "mime"
       THEN failed("MIME multipart is not supported")
       ELSE IF original.format = "script"
       THEN done(cca \o <<CloudConfigPart("text/x-shellscript", original.text)>>)
       ELSE IF original.format = "malformed"
       THEN failed("unable to parse original cloud-config-archive")
       ELSE IF original.format = "archive" /\ original.parts # <<>>
       THEN done(cca \o original.parts)
       ELSE failed("unrecognised user data format")

CloudInitIdle ==
    /\ ciPc = "idle"
    /\ ciInput = [original |-> UserDataText("empty", FALSE, <<>>, <<>>),
                  script |-> <<>>]
    /\ ciResult = NoPrepend

\* A call of PrependShellScriptToUserData.
Prepend(original, script) ==
    /\ ciPc = "idle"
    /\ ciInput' = [original |-> original, script |-> script]
    /\ ciResult' = PrependShellScriptToUserData(original, script)
    /\ ciPc' = "done"

(***************************************************************************)
(* Scale in and the tag clean-up                                           *)
(***************************************************************************)

\* Bounds of the scale-in specification: tag names with the prefix, and
\* resources a tag can have.
MaxTags == 2
MaxTagResources == 1

\* A tag name is a prefix and what follows it.
TagList ==
    [k \in 1..(MaxTags + 1) |->
       IF k <= MaxTags THEN [prefix |-> "si-", secret |-> k]
       ELSE [prefix |-> "other-", secret |-> 1]]

TagNames == {TagList[k] : k \in DOMAIN TagList}

\* strings.HasPrefix(name, prefix)
HasPrefix(name, prefix) == prefix = "" \/ name.prefix = prefix

\* godo.Tag as Tags().List returns it: Resources.Count; listed says the
\* provider has the tag.
Tag(listed, count) == [listed |-> listed, count |-> count]

TagStates ==
    [TagNames -> {Tag(FALSE, 0)} \cup {Tag(TRUE, c) : c \in 0..MaxTagResources}]

NoTags == [n \in TagNames |-> Tag(FALSE, 0)]

ScaleInIdle ==
    /\ siPc = "idle"
    /\ siTagPrefix = ""
    /\ siLog = <<>>
    /\ siResult = "none"
    /\ doTags = NoTags
    /\ tsPc = "off"
    /\ initialTags = {}
    /\ tsFirst = {}
    /\ tsListing = NoTags
    /\ tsNext = 0
    /\ tsDeleted = {}

SweeperUnchanged ==
    UNCHANGED <<doTags, tsPc, initialTags, tsFirst, tsListing, tsNext, tsDeleted>>

\* A call of scaleIn, the provider holding the tags it holds.
ScaleInEnter(tagPrefix, tags) ==
    /\ siPc = "idle"
    /\ siPc' = "pre"
    /\ siTagPrefix' = tagPrefix
    /\ doTags' = tags
    /\ UNCHANGED <<siLog, siResult, tsPc, initialTags, tsFirst, tsListing,
                   tsNext, tsDeleted>>

\* A step that goes on to the next call whatever its call returned.
ScaleInStepOn(at, op, ok, next, failure) ==
    /\ siPc = at
    /\ siLog' = Append(siLog, [op |-> op, ok |-> ok])
    /\ siPc' = next
    /\ siResult' = IF ok THEN siResult ELSE failure
    /\ UNCHANGED siTagPrefix

\* A step of scaleIn that returns at once when its call fails.
ScaleInStep(at, op, ok, next, failure) ==
    /\ siPc = at
    /\ siLog' = Append(siLog, [op |-> op, ok |-> ok])
    /\ siPc' = IF ok THEN next ELSE "returned"
    /\ siResult' = IF ok THEN siResult ELSE failure
    /\ UNCHANGED siTagPrefix

\* ids, err := t.clusterUtils.RunPreScaleInTasks(ctx, config, int(diff))
RunPreScaleInTasks(ok) ==
    /\ ScaleInStep("pre", "RunPreScaleInTasks", ok, "delete",
                   "failed to perform pre-scale Nomad scale in tasks")
    /\ SweeperUnchanged

\* t.deleteDroplets: an error of ListByTag or of the page links is
\* returned, an error of a droplet's deletion is logged.
deleteDroplets(outcome) ==
    /\ ScaleInStep("delete", "deleteDroplets", outcome \in {"ok", "logged"},
                   "stable", "failed to delete instances")
    /\ SweeperUnchanged

\* t.ensureDropletsAreStable(ctx, template, desired)
ensureDropletsAreStable(ok) ==
    /\ ScaleInStep("stable", "ensureDropletsAreStable", ok, "post",
                   "failed to confirm scale in DigitalOcean droplets")
    /\ SweeperUnchanged

\* The goroutine is started when a tag prefix is set.
Starts(tagPrefix) == tagPrefix # ""

\* t.clusterUtils.RunPostScaleInTasks, then go cleanUpUnusedTags and
\* return nil.
RunPostScaleInTasks(ok) ==
    /\ siPc = "post"
    /\ siPc' = "returned"
    /\ siLog' = Append(siLog, [op |-> "RunPostScaleInTasks", ok |-> ok])
    /\ siResult' = IF ok THEN "nil"
                   ELSE "failed to perform post-scale Nomad scale in tasks"
    /\ tsPc' = IF ok /\ Starts(siTagPrefix) THEN "first" ELSE tsPc
    /\ UNCHANGED <<siTagPrefix, doTags, initialTags, tsFirst, tsListing,
                   tsNext, tsDeleted>>

\* cleanUpUnusedTags, first loop: record the names with the prefix.
FirstListing(ok) ==
    /\ tsPc = "first"
    /\ tsPc' = IF ok THEN "sleep" ELSE "done"
    /\ tsFirst' = IF ok THEN {n \in TagNames : doTags[n].listed} ELSE {}
    /\ initialTags' = IF ok
                      THEN {n \in TagNames : /\ doTags[n].listed
                                             /\ HasPrefix(n, siTagPrefix)}
                      ELSE {}
    /\ UNCHANGED <<siPc, siTagPrefix, siLog, siResult, doTags, tsListing,
                   tsNext, tsDeleted>>

\* While the goroutine sleeps the provider's tags change: a tag is
\* created, removed, or gets another number of resources.
TagChanges(n, tag) ==
    /\ tsPc = "sleep"
    /\ doTags[n] # tag
    /\ doTags' = [doTags EXCEPT ![n] = tag]
    /\ UNCHANGED <<siPc, siTagPrefix, siLog, siResult, tsPc, initialTags,
                   tsFirst, tsListing, tsNext, tsDeleted>>

\* Sleep(ctx, time.Minute): the minute passes or ctx is done.
SleepEnds(cancelled) ==
    /\ tsPc = "sleep"
    /\ tsPc' = IF cancelled THEN "done" ELSE "second"
    /\ UNCHANGED <<siPc, siTagPrefix, siLog, siResult, doTags, initialTags,
                   tsFirst, tsListing, tsNext, tsDeleted>>

\* The positions of the second listing still to visit.
Remaining(listing, from) ==
    {k \in DOMAIN TagList : k >= from /\ listing[TagList[k]].listed}

\* The second call of Tags().List.
SecondListing(ok) ==
    /\ tsPc = "second"
    /\ tsPc' = IF ok /\ Remaining(doTags, 1) # {} THEN "sweep" ELSE "done"
    /\ tsListing' = IF ok THEN doTags ELSE tsListing
    /\ tsNext' = 1
    /\ UNCHANGED <<siPc, siTagPrefix, siLog, siResult, doTags, initialTags,
                   tsFirst, tsDeleted>>

\* A test that finds every name.
ContainsAny(names, name) == TRUE

\* slices.Contains(initialTags, tag.Name)
Contains(names, name) == name \in names

\* The body of the second loop for the next tag of the listing: skip a
\* name without the prefix, a tag in use and a tag created recently, and
\* delete the others; an error of Tags().Delete is logged.
SweepTag(deleteOk) ==
    /\ tsPc = "sweep"
    /\ LET k == CHOOSE i \in Remaining(tsListing, tsNext) :
                  \A j \in Remaining(tsListing, tsNext) : i <= j
           name == TagList[k]
           tag == tsListing[name]
           delete == /\ HasPrefix(name, siTagPrefix)
                     /\ ~(tag.count > 0)
                     /\ Contains(initialTags, name)
       IN /\ delete \/ deleteOk    \* only a call of Tags().Delete can fail
          /\ tsDeleted' = IF delete THEN tsDeleted \cup {name} ELSE tsDeleted
          /\ doTags' = IF delete /\ deleteOk
                       THEN [doTags EXCEPT ![name] = Tag(FALSE, 0)]
                       ELSE doTags
          /\ tsNext' = k + 1
          /\ tsPc' = IF Remaining(tsListing, k + 1) = {} THEN "done"
                     ELSE "sweep"
    /\ UNCHANGED <<siPc, siTagPrefix, siLog, siResult, initialTags, tsFirst,
                   tsListing>>

(***************************************************************************)
(* The name of the secure-introduction tag.  Strings are sequences of      *)
(* characters here, so that what is done to a string shows.                *)
(***************************************************************************)

MaxToken == 3

Lower == {"a", "b", "c", "d", "e", "f", "g", "h", "i", "j", "k", "l", "m",
          "n", "o", "p", "q", "r", "s", "t", "u", "v", "w", "x", "y", "z"}
Upper == {"A", "B", "C", "D", "E", "F", "G", "H", "I", "J", "K", "L", "M",
          "N", "O", "P", "Q", "R", "S", "T", "U", "V", "W", "X", "Y", "Z"}
Digits == {"0", "1", "2", "3", "4", "5", "6", "7", "8", "9"}

\* The regular expression ^[a-zA-Z0-9_\-\:]+$ of the provider's Tags.Create.
valid(name) ==
    /\ name # <<>>
    /\ \A k \in DOMAIN name : name[k] \in Lower \cup Upper \cup Digits \cup {"_", "-", ":"}

\* One character matched by [^a-zA-Z0-9_\-\:].
prohibitedCharactersInTags(c) == ~valid(<<c>>)

\* s without the prohibited characters it starts with.
RECURSIVE SkipProhibited(_)
SkipProhibited(s) ==
    IF s # <<>> /\ prohibitedCharactersInTags(Head(s))
    THEN SkipProhibited(Tail(s)) ELSE s

\* prohibitedCharactersInTags.ReplaceAllLiteralString(s, "_"): every
\* maximal run of prohibited characters becomes one underscore.
RECURSIVE ReplaceAllLiteralString(_)
ReplaceAllLiteralString(s) ==
    IF s = <<>> THEN <<>>
    ELSE IF prohibitedCharactersInTags(Head(s))
         THEN <<"_">> \o ReplaceAllLiteralString(SkipProhibited(s))
         ELSE <<Head(s)>> \o ReplaceAllLiteralString(Tail(s))

\* fmt.Sprintf("mock-wrapped-token-for-%v-and-%v", allowedIPv4, allowedIPv6)
MockToken(allowedIPv4, allowedIPv6) ==
    <<"m", "o", "c", "k", "-", "w", "r", "a", "p", "p", "e", "d", "-",
      "t", "o", "k", "e", "n", "-", "f", "o", "r", "-">>
    \o allowedIPv4 \o <<"-", "a", "n", "d", "-">> \o allowedIPv6

\* The strings the tag phase works on: the approle and the prefix of the
\* configuration, the addresses Droplets().Get reports (no IPv6 address
\* unless template.ipv6) and the token in the vault's response.
AppRoles == {"mock", "droplet-approle"}
TagPrefixes == {<<"s", "i", "-">>, <<"s", "i", ":", " ">>}
IPv4Texts == {<<"1", "0", ".", "0", ".", "0", ".", "7">>}
IPv6Texts == {<<>>, <<"f", "d", "0", "0", ":", ":", "7">>}
TokenChars == {"s", "A", "-", "."}
RECURSIVE TokensOfLen(_)
TokensOfLen(n) ==
    IF n = 0 THEN {<<>>}
    ELSE {<<c>> \o t : c \in TokenChars, t \in TokensOfLen(n - 1)}
WrapInfoTokens == UNION {TokensOfLen(n) : n \in 1..MaxToken}

\* vaultProxy.GenerateSecretId with at least one address: the mock token
\* with its prohibited characters replaced for the approle "mock", and
\* otherwise resp.WrapInfo.Token as the vault returned it.
GenerateSecretIdText(appRole, allowedIPv4, allowedIPv6, token) ==
    IF appRole = "mock"
    THEN ReplaceAllLiteralString(MockToken(allowedIPv4, allowedIPv6))
    ELSE token

\* fmt.Sprintf("%v%v", template.secureIntroductionTagPrefix, wrappedSecretId)
tagWithSecretID == tnPrefix \o tnWrapped

TagNameIdle ==
    /\ tnPc = "idle"
    /\ tnWrapped = <<>>
    /\ tnPrefix = <<>>
    /\ tnPassed = {}

\* generateTagForSecureIntroduction once the addresses are known:
\* vault.GenerateSecretId (ok: whether it returns a secret).
TagNameIssue(appRole, prefix, ipv4, ipv6, token, ok) ==
    /\ tnPc = "idle"
    /\ tnPrefix' = prefix
    /\ UNCHANGED tnPassed
    /\ IF ok
       THEN /\ tnPc' = "issued"
            /\ tnWrapped' = GenerateSecretIdText(appRole, ipv4, ipv6, token)
       ELSE /\ tnPc' = "failed"
            /\ UNCHANGED tnWrapped

\* tags.Create(ctx, &godo.TagCreateRequest{Name: tagWithSecretID}): the
\* provider refuses a name that is not valid.
TagNameCreate ==
    /\ tnPc = "issued"
    /\ tnPassed' = tnPassed \cup {tagWithSecretID}
    /\ tnPc' = IF valid(tagWithSecretID) THEN "created" ELSE "failed"
    /\ UNCHANGED <<tnWrapped, tnPrefix>>

\* tags.TagResources(ctx, tagWithSecretID, ...) under RetryOnTransientError.
TagNameAttach(ok) ==
    /\ tnPc = "created"
    /\ tnPassed' = tnPassed \cup {tagWithSecretID}
    /\ tnPc' = IF ok THEN "attached" ELSE "failed"
    /\ UNCHANGED <<tnWrapped, tnPrefix>>

(***************************************************************************)
(* shutdownDroplet and waitForDropletState                                 *)
(***************************************************************************)

\* context.WithTimeout(ctx, 5*time.Minute) and time.NewTicker(3 * time.Second),
\* in seconds.
WaitTimeout == 300
PollInterval == 3

DropletStatuses == {"active", "off"}

ShutdownIdle ==
    /\ sdPc = "idle"
    /\ sdLog = <<>>
    /\ sdElapsed = 0
    /\ sdResult = "none"

ShutdownCall(op, ok) == [op |-> op, ok |-> ok]

\* A shutdown that goes on to the wait whatever PowerOff returned.
ShutdownPowerOffIgnored(ok) ==
    /\ sdPc = "idle"
    /\ sdLog' = Append(sdLog, ShutdownCall("PowerOff", ok))
    /\ sdPc' = "poll"
    /\ UNCHANGED <<sdElapsed, sdResult>>

\* shutdownDroplet up to the wait: dropletActions.PowerOff, whose error is
\* returned.
ShutdownPowerOff(ok) ==
    /\ sdPc = "idle"
    /\ sdLog' = Append(sdLog, ShutdownCall("PowerOff", ok))
    /\ IF ok
       THEN /\ sdPc' = "poll"
            /\ UNCHANGED sdResult
       ELSE /\ sdPc' = "done"
            /\ sdResult' = "error shutting down droplet"
    /\ UNCHANGED sdElapsed

\* waitForDropletState, one pass of its loop up to the select: droplets.Get
\* fails, which ends the wait with the error, or reports the status, which
\* ends the wait with nil when it is "off".  An error of the wait is logged
\* by shutdownDroplet, which goes on.
WaitGet(ok, status) ==
    /\ sdPc = "poll"
    /\ UNCHANGED <<sdElapsed, sdResult>>
    /\ IF ~ok
       THEN /\ sdPc' = "delete"
            /\ sdLog' = Append(sdLog, ShutdownCall("waitForDropletState", FALSE))
       ELSE IF status = "off"
            THEN /\ sdPc' = "delete"
                 /\ sdLog' = Append(sdLog, ShutdownCall("waitForDropletState", TRUE))
            ELSE /\ sdPc' = "select"
                 /\ UNCHANGED sdLog

\* case <-ticker.C: the next tick comes before the deadline, or with it.
WaitTicker ==
    /\ sdPc = "select"
    /\ sdElapsed + PollInterval <= WaitTimeout
    /\ sdElapsed' = sdElapsed + PollInterval
    /\ sdPc' = "poll"
    /\ UNCHANGED <<sdLog, sdResult>>

\* case <-ctx.Done(): the deadline of the wait has come (no later than the
\* next tick), or the caller cancelled its context.
WaitCtxDone(cancelled) ==
    /\ sdPc = "select"
    /\ ~cancelled => sdElapsed + PollInterval >= WaitTimeout
    /\ sdPc' = "delete"
    /\ sdLog' = Append(sdLog, ShutdownCall("waitForDropletState", FALSE))
    /\ UNCHANGED <<sdElapsed, sdResult>>

\* shutdownDroplet after the wait: droplets.Delete.
ShutdownDelete(ok) ==
    /\ sdPc = "delete"
    /\ sdLog' = Append(sdLog, ShutdownCall("Delete", ok))
    /\ sdPc' = "done"
    /\ sdResult' = IF ok THEN "nil" ELSE "error deleting droplet"
    /\ UNCHANGED sdElapsed

(***************************************************************************)
(* deleteDroplets                                                          *)
(***************************************************************************)

\* The droplets of the account and the size of a page of ListByTag.
MaxWorkers == 3
PerPage == 1

WorkerIDs == 1..MaxWorkers

\* The name of the droplet with the given ID: names end in a random UUID,
\* so no two droplets share one.
WorkerName(id) == 100 + id
WorkerNames == {WorkerName(id) : id \in WorkerIDs}

\* The droplets of the account: each has its name and carries the tag of
\* the group (template.name) or not.
WorkerStates ==
    {[id \in WorkerIDs |->
        [name |-> WorkerName(id), tagged |-> id \in tagged, exists |-> TRUE]] :
     tagged \in SUBSET WorkerIDs}

DeleteIdle ==
    /\ ddPc = "idle"
    /\ ddDroplets = [id \in WorkerIDs |->
                       [name |-> WorkerName(id), tagged |-> FALSE, exists |-> FALSE]]
    /\ ddIDs = {}
    /\ ddPage = 0
    /\ ddLast = FALSE
    /\ ddToDelete = <<>>
    /\ ddTasks = [id \in WorkerIDs |-> "none"]
    /\ ddStarted = [id \in WorkerIDs |-> 0]
    /\ ddCalls = <<>>
    /\ ddResult = "none"

\* The IDs of a set in ascending order, the order of the provider's listing.
RECURSIVE Ascending(_)
Ascending(ids) ==
    IF ids = {} THEN <<>>
    ELSE LET m == CHOOSE x \in ids : \A y \in ids : x <= y
         IN <<m>> \o Ascending(ids \ {m})

\* Droplets().ListByTag(ctx, tag, opt): the page opt.Page (the first one
\* when it is not set) of the droplets that exist and carry the tag, and
\* whether resp.Links is nil or tells the last page.
ListByTag(droplets, page) ==
    LET all == Ascending({id \in WorkerIDs : droplets[id].exists /\ droplets[id].tagged})
        p == IF page = 0 THEN 1 ELSE page
        from == (p - 1) * PerPage + 1
        to == Min(p * PerPage, Len(all))
    IN [droplets |-> IF from <= to THEN SubSeq(all, from, to) ELSE <<>>,
        page |-> p,
        last |-> p * PerPage >= Len(all)]

\* A test that takes every listed droplet for one to delete.
InInstanceIDsAlways(droplet, instanceIDs) == TRUE

\* _, ok := instanceIDs[d.Name]
InInstanceIDs(droplet, instanceIDs) == droplet.name \in instanceIDs

\* scaleIn calls deleteDroplets with the tag of the group and the
\* RemoteResourceIDs of the nodes the pre-hook returned.
DeleteEnter(droplets, instanceIDs) ==
    /\ ddPc = "idle"
    /\ ddPc' = "list"
    /\ ddDroplets' = droplets
    /\ ddIDs' = instanceIDs
    /\ UNCHANGED <<ddPage, ddLast, ddToDelete, ddTasks, ddStarted, ddCalls,
                   ddResult>>

\* One turn of deleteDroplets' loop up to wg.Wait(): the listing, whose
\* error is returned, and a shutdown goroutine for every droplet of the
\* page whose name is in instanceIDs.
DeleteList(ok) ==
    LET resp == ListByTag(ddDroplets, ddPage)
        picked == SelectSeq(resp.droplets,
                            LAMBDA id : InInstanceIDs(ddDroplets[id], ddIDs))
        ids == {picked[k] : k \in DOMAIN picked}
    IN
    /\ ddPc = "list"
    /\ UNCHANGED <<ddDroplets, ddIDs, ddPage, ddCalls>>
    /\ IF ~ok
       THEN /\ ddPc' = "returned"
            /\ ddResult' = "err"
            /\ UNCHANGED <<ddLast, ddToDelete, ddTasks, ddStarted>>
       ELSE /\ ddPc' = "wait"
            /\ ddLast' = resp.last
            /\ ddToDelete' = ddToDelete \o picked
            /\ ddTasks' = [id \in WorkerIDs |->
                             IF id \in ids THEN "poweroff" ELSE ddTasks[id]]
            /\ ddStarted' = [id \in WorkerIDs |->
                               IF id \in ids THEN ddStarted[id] + 1
                               ELSE ddStarted[id]]
            /\ UNCHANGED ddResult

\* shutdownDroplet of one goroutine up to Delete: PowerOff, whose error
\* ends the task, and the wait for "off".
TaskPowerOff(id, ok) ==
    /\ ddTasks[id] = "poweroff"
    /\ ddCalls' = Append(ddCalls, [op |-> "PowerOff", id |-> id, ok |-> ok])
    /\ ddTasks' = [ddTasks EXCEPT ![id] = IF ok THEN "delete" ELSE "done"]
    /\ UNCHANGED <<ddPc, ddDroplets, ddIDs, ddPage, ddLast, ddToDelete,
                   ddStarted, ddResult>>

\* shutdownDroplet's Delete and the goroutine's end: the error is logged.
TaskDelete(id, ok) ==
    /\ ddTasks[id] = "delete"
    /\ ddCalls' = Append(ddCalls, [op |-> "Delete", id |-> id, ok |-> ok])
    /\ ddTasks' = [ddTasks EXCEPT ![id] = "done"]
    /\ ddDroplets' = IF ok THEN [ddDroplets EXCEPT ![id].exists = FALSE]
                     ELSE ddDroplets
    /\ UNCHANGED <<ddPc, ddIDs, ddPage, ddLast, ddToDelete, ddStarted,
                   ddResult>>

\* wg.Wait() returns and the loop ends, or goes on to the page after the
\* current one (linkOk: whether resp.Links.CurrentPage() succeeds).
DeleteWaited(linkOk) ==
    /\ ddPc = "wait"
    /\ \A id \in WorkerIDs : ddTasks[id] \in {"none", "done"}
    /\ UNCHANGED <<ddDroplets, ddIDs, ddLast, ddToDelete, ddTasks, ddStarted,
                   ddCalls>>
    /\ IF Len(ddToDelete) = Cardinality(ddIDs) \/ ddLast
       THEN /\ ddPc' = "returned"
            /\ ddResult' = "nil"
            /\ UNCHANGED ddPage
       ELSE IF ~linkOk
            THEN /\ ddPc' = "returned"
                 /\ ddResult' = "err"
                 /\ UNCHANGED ddPage
            ELSE /\ ddPc' = "list"
                 /\ ddPage' = ListByTag(ddDroplets, ddPage).page + 1
                 /\ UNCHANGED ddResult

(***************************************************************************)
(* Unpaginate                                                              *)
(***************************************************************************)

MaxListPages == 3
MaxPageItems == 2

\* The listings f pages through: the number of items of each page.
ListingSizes ==
    UNION {[1..n -> 0..MaxPageItems] : n \in 1..MaxListPages}

\* The item at position k of page p, and the zero value of the item type.
Item(p, k) == [page |-> p, pos |-> k]
ZeroItem == Item(0, 0)

\* A pair the iterator yields.
Pair(item, err) == [item |-> item, err |-> err]

UnpaginateIdle ==
    /\ upPc = "idle"
    /\ upSizes = <<>>
    /\ upPage = 0
    /\ upIdx = 0
    /\ upRequests = <<>>
    /\ upYielded = <<>>
    /\ upResult = "none"

\* The page f asks the provider for: the first one when opt.Page is not set.
RequestedPage(page) == IF page = 0 THEN 1 ELSE page

\* The consumer ranges over Unpaginate(ctx, f, opt) for a listing.
UnpaginateEnter(sizes) ==
    /\ upPc = "idle"
    /\ upPc' = "request"
    /\ upSizes' = sizes
    /\ UNCHANGED <<upPage, upIdx, upRequests, upYielded, upResult>>

\* items, resp, err := f(ctx, &opt): an error is yielded with the zero item
\* and ends the iteration.
UnpaginateRequest(ok) ==
    /\ upPc = "request"
    /\ upRequests' = Append(upRequests, RequestedPage(upPage))
    /\ UNCHANGED <<upSizes, upPage>>
    /\ IF ok
       THEN /\ upPc' = "items"
            /\ upIdx' = 1
            /\ UNCHANGED <<upYielded, upResult>>
       ELSE /\ upPc' = "done"
            /\ upYielded' = Append(upYielded, Pair(ZeroItem, TRUE))
            /\ upResult' = "error"
            /\ UNCHANGED upIdx

\* A yield that goes on whatever the consumer answered.
UnpaginateYieldOn(more) ==
    LET p == RequestedPage(upPage) IN
    /\ upPc = "items"
    /\ upIdx <= upSizes[p]
    /\ upYielded' = Append(upYielded, Pair(Item(p, upIdx), FALSE))
    /\ upIdx' = upIdx + 1
    /\ upResult' = IF more THEN upResult ELSE "stopped"
    /\ UNCHANGED <<upPc, upSizes, upPage, upRequests>>

\* yield(item, nil) for the next item of the page: the iteration ends when
\* the consumer has stopped (more = FALSE).
UnpaginateYield(more) ==
    LET p == RequestedPage(upPage) IN
    /\ upPc = "items"
    /\ upIdx <= upSizes[p]
    /\ upYielded' = Append(upYielded, Pair(Item(p, upIdx), FALSE))
    /\ UNCHANGED <<upSizes, upPage, upRequests>>
    /\ IF more
       THEN /\ upIdx' = upIdx + 1
            /\ UNCHANGED <<upPc, upResult>>
       ELSE /\ upPc' = "done"
            /\ upResult' = "stopped"
            /\ UNCHANGED upIdx

\* After the last item of the page: the iteration ends when resp.Links is
\* nil or tells the last page; otherwise opt.Page becomes CurrentPage() + 1,
\* or the error of CurrentPage is yielded.
UnpaginatePageEnd(linkOk) ==
    LET p == RequestedPage(upPage) IN
    /\ upPc = "items"
    /\ upIdx > upSizes[p]
    /\ UNCHANGED <<upSizes, upIdx, upRequests>>
    /\ IF p >= Len(upSizes)
       THEN /\ upPc' = "done"
            /\ upResult' = "last"
            /\ UNCHANGED <<upPage, upYielded>>
       ELSE IF ~linkOk
            THEN /\ upPc' = "done"
                 /\ upResult' = "error"
                 /\ upYielded' = Append(upYielded, Pair(ZeroItem, TRUE))
                 /\ UNCHANGED upPage
            ELSE /\ upPc' = "request"
                 /\ upPage' = p + 1
                 /\ UNCHANGED <<upYielded, upResult>>

(***************************************************************************)
(* The tag clean-up beside a scale-out task's credential tag                *)
(* (digitalocean.go cleanUpUnusedTags, generateTagForSecureIntroduction)     *)
(***************************************************************************)

\* time.Minute, the sleep between the two listings, in seconds.
SweepSleep == 60

\* 10*time.Second, the interval RetryOnTransientError retries at.
AttachInterval == 10

\* The time the model follows a clean-up and a task for, in seconds.
RaceMaxTime == 80

TagRaceIdle ==
    /\ raPc = "idle"
    /\ raTag = TagList[1]
    /\ raAttempts = 0
    /\ raNextTry = 0
    /\ raNow = 0
    /\ raSleepAt = 0

\* tags.Create(ctx, &godo.TagCreateRequest{Name: tagWithSecretID}): the
\* name is the prefix and a fresh wrapped secret, so the provider has not
\* had a tag of that name yet.
TagRaceCreate(n) ==
    /\ raPc = "idle"
    /\ HasPrefix(n, "si-")
    /\ ~doTags[n].listed
    /\ n \notin tsFirst \cup tsDeleted
    /\ raPc' = "created"
    /\ raTag' = n
    /\ raNextTry' = raNow
    /\ doTags' = [doTags EXCEPT ![n] = Tag(TRUE, 0)]
    /\ UNCHANGED <<raAttempts, raNow, raSleepAt>>
    /\ UNCHANGED <<siPc, siTagPrefix, siLog, siResult, tsPc, initialTags,
                   tsFirst, tsListing, tsNext, tsDeleted>>

\* One call of tags.TagResources under RetryOnTransientError: nil attaches
\* the tag, a 422 is retried ten seconds later and at most thirty times,
\* another error ends the task.  A tag the provider no longer has cannot be
\* attached.
TagRaceAttach(kind) ==
    /\ raPc = "created"
    /\ raNow >= raNextTry
    /\ kind = "nil" => doTags[raTag].listed
    /\ raAttempts' = raAttempts + 1
    /\ raPc' = IF kind = "nil" THEN "attached"
               ELSE IF IsTransient(kind) /\ raAttempts + 1 < TransientAttempts
                    THEN "created"
                    ELSE "failed"
    /\ raNextTry' = raNow + AttachInterval
    /\ doTags' = IF kind = "nil"
                 THEN [doTags EXCEPT ![raTag] = Tag(TRUE, 1)]
                 ELSE doTags
    /\ UNCHANGED <<raTag, raNow, raSleepAt>>
    /\ UNCHANGED <<siPc, siTagPrefix, siLog, siResult, tsPc, initialTags,
                   tsFirst, tsListing, tsNext, tsDeleted>>

\* cleanUpUnusedTags reaches Sleep(ctx, time.Minute) after its first listing.
TagRaceFirstListing(ok) ==
    /\ FirstListing(ok)
    /\ raSleepAt' = raNow
    /\ UNCHANGED <<raPc, raTag, raAttempts, raNextTry, raNow>>

\* Sleep's timer fires a minute after it was set.
TagRaceSleepEnds ==
    /\ raNow >= raSleepAt + SweepSleep
    /\ SleepEnds(FALSE)
    /\ UNCHANGED raVars

\* Ten seconds pass; a timer that is due fires before more time passes.
TagRaceTick ==
    /\ raNow + AttachInterval <= RaceMaxTime
    /\ ~(tsPc = "sleep" /\ raNow >= raSleepAt + SweepSleep)
    /\ ~(raPc = "created" /\ raNow >= raNextTry)
    /\ raNow' = raNow + AttachInterval
    /\ UNCHANGED <<raPc, raTag, raAttempts, raNextTry, raSleepAt>>
    /\ UNCHANGED siVars

(***************************************************************************)
(* Two scale-out calls on one pool (digitalocean.go scaleOut, utils.go)     *)
(***************************************************************************)

\* 5*time.Minute, the expiry scaleOut passes to PrereserveIPs, in minutes.
LeaseExpiry == 5

\* The time the model follows the two calls for, in minutes.
LeaseMaxTime == 7

Calls == {1, 2}

LeaseIdle ==
    /\ lePc = [c \in Calls |-> "idle"]
    /\ leAddrs = [c \in Calls |-> {}]
    /\ leTried = [c \in Calls |-> {}]
    /\ leAt = [c \in Calls |-> 0]
    /\ leNow = 0

\* scaleOut of call c: PrereserveIPs(ctx, diff, region, false, 5*time.Minute).
\* With too few admissible addresses the call returns the error; otherwise
\* the scan keeps `picked`, which is recorded and returned.
LeasePrereserve(c, diff, picked) ==
    LET list == reservedIPs["v4"]
        pre == prereservedIPs["v4"]
        free == {a \in DOMAIN list : Admissible(list, pre, a, leNow)}
    IN
    /\ lePc[c] = "idle"
    /\ picked \subseteq free
    /\ Cardinality(picked) = Min(diff, Cardinality(free))
    /\ IF Cardinality(free) < diff
       THEN /\ lePc' = [lePc EXCEPT ![c] = "returned"]
            /\ UNCHANGED <<prereservedIPs, leAddrs, leAt>>
       ELSE /\ lePc' = [lePc EXCEPT ![c] = "leased"]
            /\ prereservedIPs' =
                  [prereservedIPs EXCEPT
                     !["v4"] = Record(pre, picked, leNow, LeaseExpiry)]
            /\ leAddrs' = [leAddrs EXCEPT ![c] = picked]
            /\ leAt' = [leAt EXCEPT ![c] = leNow]
    /\ UNCHANGED <<reservedIPs, held, poolRes, leTried, leNow>>

\* A task of call c: AssignIPv4(ctx, dropletID, ip) with an address the
\* call was given.
LeaseAssign(c, ip, outcome) ==
    LET pre == prereservedIPs["v4"] IN
    /\ lePc[c] = "leased"
    /\ ip \in leAddrs[c] \ leTried[c]
    /\ leTried' = [leTried EXCEPT ![c] = @ \cup {ip}]
    /\ IF ~Prereserved(pre, ip, leNow)
       THEN /\ outcome = "fail"
            /\ UNCHANGED <<reservedIPs, prereservedIPs>>
       ELSE /\ prereservedIPs' = [prereservedIPs EXCEPT !["v4"] = Delete(pre, ip)]
            /\ reservedIPs' = IF outcome = "ok"
                              THEN [reservedIPs EXCEPT !["v4"][ip] = HasDroplet]
                              ELSE reservedIPs
    /\ UNCHANGED <<held, poolRes, lePc, leAddrs, leAt, leNow>>

\* scaleOut of call c returns: its tasks have ended, with or without their
\* assignments.
LeaseReturn(c) ==
    /\ lePc[c] = "leased"
    /\ lePc' = [lePc EXCEPT ![c] = "returned"]
    /\ UNCHANGED <<poolVars, leAddrs, leTried, leAt, leNow>>

\* A minute passes.
LeaseTick ==
    /\ leNow < LeaseMaxTime
    /\ leNow' = leNow + 1
    /\ UNCHANGED <<poolVars, lePc, leAddrs, leTried, leAt>>

(***************************************************************************)
(* Concurrent callers of Consume (part_006 rateLimiter.Consume)             *)
(***************************************************************************)

Callers == {1, 2}

ConsumersIdle ==
    /\ rcPc = [c \in Callers |-> "out"]
    /\ rcReturned = 0

\* Caller c calls Consume and reaches r.mutex.Lock().
CallerLocks(c) ==
    /\ rcPc[c] = "out"
    /\ rcPc' = [rcPc EXCEPT ![c] = "lock"]
    /\ UNCHANGED <<rlVars, rcReturned>>

\* Caller c gets the mutex, which no caller inside Consume holds, and runs
\* Consume up to its return or its timer.
CallerConsumes(c) ==
    /\ rcPc[c] = "lock"
    /\ ConsumeCall
    /\ rcPc' = [rcPc EXCEPT ![c] = IF rlPc' = "idle" THEN "out" ELSE "wait"]
    /\ rcReturned' = IF rlPc' = "idle" THEN rcReturned + 1 ELSE rcReturned

\* The timer of caller c fires; Consume returns and unlocks the mutex.
CallerTimer(c) ==
    /\ rcPc[c] = "wait"
    /\ ConsumeTimer
    /\ rcPc' = [rcPc EXCEPT ![c] = "out"]
    /\ rcReturned' = rcReturned + 1

(***************************************************************************)
(* Specifications                                                          *)
(***************************************************************************)

RlOff ==
    /\ now = 0
    /\ burst = 0
    /\ current = 0
    /\ rechargePeriod = 0
    /\ nextCheck = 0
    /\ RlIdle

RetryOff ==
    /\ RetryIdle
    /\ ctxCause = NoErr

NextLimiter ==
    \/ ConsumeCall /\ UNCHANGED NotLimiter
    \/ ConsumeTimer /\ UNCHANGED NotLimiter
    \/ ConsumeCancelled /\ UNCHANGED NotLimiter
    \/ RlTick /\ UNCHANGED NotLimiter

StartLimiter ==
    /\ InitLimiter
    /\ RetryOff
    /\ PoolIdle
    /\ ScaleOutIdle
    /\ TargetIdle
    /\ SweeperIdle
    /\ CloudInitIdle
    /\ ScaleInIdle
    /\ TransientIdle
    /\ CreateRateIdle
    /\ PoolRegionIdle
    /\ TagNameIdle
    /\ StableIdle
    /\ ShutdownIdle
    /\ DeleteIdle
    /\ UnpaginateIdle
    /\ TagRaceIdle
    /\ LeaseIdle
    /\ ConsumersIdle

SpecLimiter == StartLimiter /\ [][NextLimiter]_vars

NextRetry ==
    \/ \E attempts \in 0..MaxAttempts :
         RetryEnter(attempts) /\ UNCHANGED NotRetry
    \/ \E ret \in {"nil", "err"}, cancelWith \in {"no", "same", "other"} :
         RetryInvoke(ret, cancelWith) /\ UNCHANGED NotRetry
    \/ RetryTicker /\ UNCHANGED NotRetry
    \/ RetryCtxDone /\ UNCHANGED NotRetry
    \/ CallerCancels /\ UNCHANGED NotRetry

StartRetry ==
    /\ RlOff
    /\ InitRetry
    /\ PoolIdle
    /\ ScaleOutIdle
    /\ TargetIdle
    /\ SweeperIdle
    /\ CloudInitIdle
    /\ ScaleInIdle
    /\ TransientIdle
    /\ CreateRateIdle
    /\ PoolRegionIdle
    /\ TagNameIdle
    /\ StableIdle
    /\ ShutdownIdle
    /\ DeleteIdle
    /\ UnpaginateIdle
    /\ TagRaceIdle
    /\ LeaseIdle
    /\ ConsumersIdle

SpecRetry == StartRetry /\ [][NextRetry]_vars

NextTransient ==
    \/ TransientEnter /\ UNCHANGED NotTransient
    \/ \E kind \in TransientKinds :
         TransientInvoke(kind) /\ UNCHANGED NotTransient
    \/ RetryTicker /\ UNCHANGED <<fKind, NotTransient>>
    \/ RetryCtxDone /\ UNCHANGED <<fKind, NotTransient>>
    \/ CallerCancels /\ UNCHANGED <<fKind, NotTransient>>

StartTransient ==
    /\ RlOff
    /\ InitRetry
    /\ PoolIdle
    /\ ScaleOutIdle
    /\ TargetIdle
    /\ SweeperIdle
    /\ CloudInitIdle
    /\ ScaleInIdle
    /\ TransientIdle
    /\ CreateRateIdle
    /\ PoolRegionIdle
    /\ TagNameIdle
    /\ StableIdle
    /\ ShutdownIdle
    /\ DeleteIdle
    /\ UnpaginateIdle
    /\ TagRaceIdle
    /\ LeaseIdle
    /\ ConsumersIdle

SpecTransient == StartTransient /\ [][NextTransient]_vars

\* The pool starts with no pre-reservation; its limiter was created full and
\* may already have been drawn on by Create calls that failed.
InitPool ==
    /\ now = 0
    /\ burst = PoolBurst
    /\ rechargePeriod = PoolRecharge
    /\ current = 1
    /\ nextCheck = NewRateLimiter(PoolBurst, PoolRecharge, TRUE, 0).nextCheck
    /\ RlIdle
    /\ PoolIdle

NextPool ==
    \/ PrereserveIPs /\ UNCHANGED NotPool
    \/ PrereserveIPV6s /\ UNCHANGED NotPool
    \/ AssignIPv4 /\ UNCHANGED NotPool
    \/ AssignIPv6 /\ UNCHANGED NotPool
    \/ \E fam \in Fams : ProviderAdds(fam) /\ UNCHANGED NotPool
    \/ \E fam \in Fams, a \in Addrs :
         ProviderReleases(fam, a) /\ UNCHANGED NotPool
    \/ PoolTick /\ UNCHANGED NotPool

StartPool ==
    /\ InitPool
    /\ RetryOff
    /\ ScaleOutIdle
    /\ TargetIdle
    /\ SweeperIdle
    /\ CloudInitIdle
    /\ ScaleInIdle
    /\ TransientIdle
    /\ CreateRateIdle
    /\ PoolRegionIdle
    /\ TagNameIdle
    /\ StableIdle
    /\ ShutdownIdle
    /\ DeleteIdle
    /\ UnpaginateIdle
    /\ TagRaceIdle
    /\ LeaseIdle
    /\ ConsumersIdle

SpecPool == StartPool /\ [][NextPool]_vars

NextPoolRegion ==
    \/ \E fam \in Fams, region \in Regions :
         PrereserveInRegion(fam, region) /\ UNCHANGED NotPoolRegion
    \/ AssignIPv4 /\ UNCHANGED <<pgVars, NotPoolRegion>>
    \/ AssignIPv6 /\ UNCHANGED <<pgVars, NotPoolRegion>>
    \/ \E fam \in Fams, region \in Regions :
         ProviderAddsInRegion(fam, region) /\ UNCHANGED NotPoolRegion
    \/ \E fam \in Fams, a \in Addrs :
         ProviderReleases(fam, a) /\ UNCHANGED <<pgVars, NotPoolRegion>>
    \/ PoolTick /\ UNCHANGED <<pgVars, NotPoolRegion>>

StartPoolRegion ==
    /\ InitPool
    /\ RetryOff
    /\ ScaleOutIdle
    /\ TargetIdle
    /\ SweeperIdle
    /\ CloudInitIdle
    /\ ScaleInIdle
    /\ TransientIdle
    /\ CreateRateIdle
    /\ PoolRegionIdle
    /\ TagNameIdle
    /\ StableIdle
    /\ ShutdownIdle
    /\ DeleteIdle
    /\ UnpaginateIdle
    /\ TagRaceIdle
    /\ LeaseIdle
    /\ ConsumersIdle

SpecPoolRegion == StartPoolRegion /\ [][NextPoolRegion]_vars

NextCreateRate ==
    \/ \E cancelled \in BOOLEAN :
         CreateOne(cancelled) /\ UNCHANGED <<poolVars, NotCreateRate>>
    \/ PoolTick /\ UNCHANGED <<createdAt, NotCreateRate>>

StartCreateRate ==
    /\ NewPool
    /\ PoolIdle
    /\ RetryOff
    /\ ScaleOutIdle
    /\ TargetIdle
    /\ SweeperIdle
    /\ CloudInitIdle
    /\ ScaleInIdle
    /\ TransientIdle
    /\ CreateRateIdle
    /\ PoolRegionIdle
    /\ TagNameIdle
    /\ StableIdle
    /\ ShutdownIdle
    /\ DeleteIdle
    /\ UnpaginateIdle
    /\ TagRaceIdle
    /\ LeaseIdle
    /\ ConsumersIdle

SpecCreateRate == StartCreateRate /\ [][NextCreateRate]_vars

NextScaleOut ==
    \/ soPc = "idle"
         /\ \E config \in Configs, diff \in 1..MaxDiff, pre4Ok \in BOOLEAN,
               pre6Ok \in BOOLEAN :
              ScaleOutEnter(config, diff, pre4Ok, pre6Ok)
           /\ UNCHANGED NotScaleOut
    \/ \E i \in Tasks,
          failAt \in {"none", "secure", "prepend", "create", "assign4",
                      "assign6", "tagip", "tagsecret", "tagcreate",
                      "tagattach"} :
         TaskRun(i, failAt) /\ UNCHANGED NotScaleOut
    \/ \E i \in Tasks : TaskSend(i) /\ UNCHANGED NotScaleOut
    \/ \E i \in Tasks :
         TaskSendOnClosed(i) /\ UNCHANGED NotScaleOut
    \/ CloserCloses /\ UNCHANGED NotScaleOut
    \/ CollectEnds /\ UNCHANGED NotScaleOut
    \/ \E stable \in BOOLEAN :
         StabilityWaitEnds(stable) /\ UNCHANGED NotScaleOut

StartScaleOut ==
    /\ RlOff
    /\ RetryOff
    /\ PoolIdle
    /\ ScaleOutIdle
    /\ TargetIdle
    /\ SweeperIdle
    /\ CloudInitIdle
    /\ ScaleInIdle
    /\ TransientIdle
    /\ CreateRateIdle
    /\ PoolRegionIdle
    /\ TagNameIdle
    /\ StableIdle
    /\ ShutdownIdle
    /\ DeleteIdle
    /\ UnpaginateIdle
    /\ TagRaceIdle
    /\ LeaseIdle
    /\ ConsumersIdle

SpecScaleOut == StartScaleOut /\ [][NextScaleOut]_vars

\* Scale and Status take the configuration with the fields they do not
\* read held at one value.
TargetConfigs ==
    {c \in Configs : /\ c.userData = "" /\ c.tags # <<>>
                     /\ c.filename /\ ~c.ipv6}

NextTarget ==
    \/ tpPc = "idle"
         /\ \E config \in TargetConfigs, count \in 0..MaxDesired,
               dryRun \in BOOLEAN :
              Scale(config, count, dryRun) /\ UNCHANGED NotTarget
    \/ tpPc = "idle"
         /\ \E config \in TargetConfigs, poolReady \in BOOLEAN,
               poolErr \in BOOLEAN :
              Status(config, poolReady, poolErr) /\ UNCHANGED NotTarget
    \/ tpPc = "count"
         /\ \E page \in Pages, listOk \in BOOLEAN,
               links \in {"last", "more", "bad"} :
              CountPage(page, listOk, links) /\ UNCHANGED NotTarget

StartTarget ==
    /\ RlOff
    /\ RetryOff
    /\ PoolIdle
    /\ ScaleOutIdle
    /\ TargetIdle
    /\ SweeperIdle
    /\ CloudInitIdle
    /\ ScaleInIdle
    /\ TransientIdle
    /\ CreateRateIdle
    /\ PoolRegionIdle
    /\ TagNameIdle
    /\ StableIdle
    /\ ShutdownIdle
    /\ DeleteIdle
    /\ UnpaginateIdle
    /\ TagRaceIdle
    /\ LeaseIdle
    /\ ConsumersIdle

SpecTarget == StartTarget /\ [][NextTarget]_vars

NextSweeper ==
    \/ swPc = "idle"
         /\ \E droplets \in OrphanDroplets, whitelist \in SUBSET OrphanIDs,
               grace \in 0..MaxAge :
              SweepBegins(droplets, whitelist, grace) /\ UNCHANGED NotSweeper
    \/ SweepDroplet /\ UNCHANGED NotSweeper
    \/ SweepEnds /\ UNCHANGED NotSweeper

StartSweeper ==
    /\ RlOff
    /\ RetryOff
    /\ PoolIdle
    /\ ScaleOutIdle
    /\ TargetIdle
    /\ SweeperIdle
    /\ CloudInitIdle
    /\ ScaleInIdle
    /\ TransientIdle
    /\ CreateRateIdle
    /\ PoolRegionIdle
    /\ TagNameIdle
    /\ StableIdle
    /\ ShutdownIdle
    /\ DeleteIdle
    /\ UnpaginateIdle
    /\ TagRaceIdle
    /\ LeaseIdle
    /\ ConsumersIdle

SpecSweeper == StartSweeper /\ [][NextSweeper]_vars

NextCloudInit ==
    \E original \in Originals, script \in Scripts :
      Prepend(original, script) /\ UNCHANGED NotCloudInit

StartCloudInit ==
    /\ RlOff
    /\ RetryOff
    /\ PoolIdle
    /\ ScaleOutIdle
    /\ TargetIdle
    /\ SweeperIdle
    /\ CloudInitIdle
    /\ ScaleInIdle
    /\ TransientIdle
    /\ CreateRateIdle
    /\ PoolRegionIdle
    /\ TagNameIdle
    /\ StableIdle
    /\ ShutdownIdle
    /\ DeleteIdle
    /\ UnpaginateIdle
    /\ TagRaceIdle
    /\ LeaseIdle
    /\ ConsumersIdle

SpecCloudInit == StartCloudInit /\ [][NextCloudInit]_vars

NextScaleIn ==
    \/ siPc = "idle" /\ \E tagPrefix \in {"", "si-"}, tags \in TagStates :
         ScaleInEnter(tagPrefix, tags) /\ UNCHANGED NotScaleIn
    \/ \E ok \in BOOLEAN : RunPreScaleInTasks(ok) /\ UNCHANGED NotScaleIn
    \/ \E outcome \in {"ok", "logged", "list", "page"} :
         deleteDroplets(outcome) /\ UNCHANGED NotScaleIn
    \/ \E ok \in BOOLEAN : ensureDropletsAreStable(ok) /\ UNCHANGED NotScaleIn
    \/ \E ok \in BOOLEAN : RunPostScaleInTasks(ok) /\ UNCHANGED NotScaleIn
    \/ \E ok \in BOOLEAN : FirstListing(ok) /\ UNCHANGED NotScaleIn
    \/ tsPc = "sleep" /\ \E n \in TagNames :
         \E tag \in {Tag(FALSE, 0)} \cup {Tag(TRUE, c) : c \in 0..MaxTagResources} :
           TagChanges(n, tag) /\ UNCHANGED NotScaleIn
    \/ \E cancelled \in BOOLEAN : SleepEnds(cancelled) /\ UNCHANGED NotScaleIn
    \/ \E ok \in BOOLEAN : SecondListing(ok) /\ UNCHANGED NotScaleIn
    \/ \E deleteOk \in BOOLEAN : SweepTag(deleteOk) /\ UNCHANGED NotScaleIn

StartScaleIn ==
    /\ RlOff
    /\ RetryOff
    /\ PoolIdle
    /\ ScaleOutIdle
    /\ TargetIdle
    /\ SweeperIdle
    /\ CloudInitIdle
    /\ ScaleInIdle
    /\ TransientIdle
    /\ CreateRateIdle
    /\ PoolRegionIdle
    /\ TagNameIdle
    /\ StableIdle
    /\ ShutdownIdle
    /\ DeleteIdle
    /\ UnpaginateIdle
    /\ TagRaceIdle
    /\ LeaseIdle
    /\ ConsumersIdle

SpecScaleIn == StartScaleIn /\ [][NextScaleIn]_vars

NextTagName ==
    \/ /\ tnPc = "idle"
       /\ \E appRole \in AppRoles, prefix \in TagPrefixes, ipv4 \in IPv4Texts,
             ipv6 \in IPv6Texts, token \in WrapInfoTokens, ok \in BOOLEAN :
            /\ (appRole = "mock" \/ ~ok) => token = <<"s">>
            /\ TagNameIssue(appRole, prefix, ipv4, ipv6, token, ok)
       /\ UNCHANGED NotTagName
    \/ TagNameCreate /\ UNCHANGED NotTagName
    \/ \E ok \in BOOLEAN : TagNameAttach(ok) /\ UNCHANGED NotTagName

StartTagName ==
    /\ RlOff
    /\ RetryOff
    /\ PoolIdle
    /\ ScaleOutIdle
    /\ TargetIdle
    /\ SweeperIdle
    /\ CloudInitIdle
    /\ ScaleInIdle
    /\ TransientIdle
    /\ CreateRateIdle
    /\ PoolRegionIdle
    /\ TagNameIdle
    /\ StableIdle
    /\ ShutdownIdle
    /\ DeleteIdle
    /\ UnpaginateIdle
    /\ TagRaceIdle
    /\ LeaseIdle
    /\ ConsumersIdle

SpecTagName == StartTagName /\ [][NextTagName]_vars

NextStable ==
    \/ \E desired \in 0..MaxStable :
         StableEnter(desired) /\ UNCHANGED NotStable
    \/ \E ok \in BOOLEAN, counted \in 0..MaxStable :
         /\ ~ok => counted = 0
         /\ StableCount(ok, counted)
         /\ UNCHANGED NotStable
    \/ RetryTicker /\ UNCHANGED <<stVars, NotStable>>
    \/ RetryCtxDone /\ UNCHANGED <<stVars, NotStable>>
    \/ CallerCancels /\ UNCHANGED <<stVars, NotStable>>

StartStable ==
    /\ RlOff
    /\ InitRetry
    /\ PoolIdle
    /\ ScaleOutIdle
    /\ TargetIdle
    /\ SweeperIdle
    /\ CloudInitIdle
    /\ ScaleInIdle
    /\ TransientIdle
    /\ CreateRateIdle
    /\ PoolRegionIdle
    /\ TagNameIdle
    /\ StableIdle
    /\ ShutdownIdle
    /\ DeleteIdle
    /\ UnpaginateIdle
    /\ TagRaceIdle
    /\ LeaseIdle
    /\ ConsumersIdle

SpecStable == StartStable /\ [][NextStable]_vars

NextShutdown ==
    \/ \E ok \in BOOLEAN : ShutdownPowerOff(ok) /\ UNCHANGED NotShutdown
    \/ \E ok \in BOOLEAN, status \in DropletStatuses :
         /\ ~ok => status = "active"
         /\ WaitGet(ok, status)
         /\ UNCHANGED NotShutdown
    \/ WaitTicker /\ UNCHANGED NotShutdown
    \/ \E cancelled \in BOOLEAN : WaitCtxDone(cancelled) /\ UNCHANGED NotShutdown
    \/ \E ok \in BOOLEAN : ShutdownDelete(ok) /\ UNCHANGED NotShutdown

StartShutdown ==
    /\ RlOff
    /\ RetryOff
    /\ PoolIdle
    /\ ScaleOutIdle
    /\ TargetIdle
    /\ SweeperIdle
    /\ CloudInitIdle
    /\ ScaleInIdle
    /\ TransientIdle
    /\ CreateRateIdle
    /\ PoolRegionIdle
    /\ TagNameIdle
    /\ StableIdle
    /\ ShutdownIdle
    /\ DeleteIdle
    /\ UnpaginateIdle
    /\ TagRaceIdle
    /\ LeaseIdle
    /\ ConsumersIdle

SpecShutdown == StartShutdown /\ [][NextShutdown]_vars

NextDelete ==
    \/ /\ ddPc = "idle"
       /\ \E droplets \in WorkerStates, instanceIDs \in SUBSET WorkerNames :
            DeleteEnter(droplets, instanceIDs)
       /\ UNCHANGED NotDelete
    \/ \E ok \in BOOLEAN : DeleteList(ok) /\ UNCHANGED NotDelete
    \/ \E id \in WorkerIDs, ok \in BOOLEAN :
         TaskPowerOff(id, ok) /\ UNCHANGED NotDelete
    \/ \E id \in WorkerIDs, ok \in BOOLEAN :
         TaskDelete(id, ok) /\ UNCHANGED NotDelete
    \/ \E linkOk \in BOOLEAN : DeleteWaited(linkOk) /\ UNCHANGED NotDelete

StartDelete ==
    /\ RlOff
    /\ RetryOff
    /\ PoolIdle
    /\ ScaleOutIdle
    /\ TargetIdle
    /\ SweeperIdle
    /\ CloudInitIdle
    /\ ScaleInIdle
    /\ TransientIdle
    /\ CreateRateIdle
    /\ PoolRegionIdle
    /\ TagNameIdle
    /\ StableIdle
    /\ ShutdownIdle
    /\ DeleteIdle
    /\ UnpaginateIdle
    /\ TagRaceIdle
    /\ LeaseIdle
    /\ ConsumersIdle

SpecDelete == StartDelete /\ [][NextDelete]_vars

NextUnpaginate ==
    \/ /\ upPc = "idle"
       /\ \E sizes \in ListingSizes : UnpaginateEnter(sizes)
       /\ UNCHANGED NotUnpaginate
    \/ \E ok \in BOOLEAN : UnpaginateRequest(ok) /\ UNCHANGED NotUnpaginate
    \/ \E more \in BOOLEAN : UnpaginateYield(more) /\ UNCHANGED NotUnpaginate
    \/ \E linkOk \in BOOLEAN :
         UnpaginatePageEnd(linkOk) /\ UNCHANGED NotUnpaginate

StartUnpaginate ==
    /\ RlOff
    /\ RetryOff
    /\ PoolIdle
    /\ ScaleOutIdle
    /\ TargetIdle
    /\ SweeperIdle
    /\ CloudInitIdle
    /\ ScaleInIdle
    /\ TransientIdle
    /\ CreateRateIdle
    /\ PoolRegionIdle
    /\ TagNameIdle
    /\ StableIdle
    /\ ShutdownIdle
    /\ DeleteIdle
    /\ UnpaginateIdle
    /\ TagRaceIdle
    /\ LeaseIdle
    /\ ConsumersIdle

SpecUnpaginate == StartUnpaginate /\ [][NextUnpaginate]_vars

NextTagRace ==
    \/ siPc = "idle" /\ \E tags \in TagStates :
         ScaleInEnter("si-", tags) /\ UNCHANGED raVars /\ UNCHANGED NotTagRace
    \/ RunPreScaleInTasks(TRUE) /\ UNCHANGED raVars /\ UNCHANGED NotTagRace
    \/ deleteDroplets("ok") /\ UNCHANGED raVars /\ UNCHANGED NotTagRace
    \/ ensureDropletsAreStable(TRUE) /\ UNCHANGED raVars /\ UNCHANGED NotTagRace
    \/ RunPostScaleInTasks(TRUE) /\ UNCHANGED raVars /\ UNCHANGED NotTagRace
    \/ siPc # "idle" /\ \E n \in TagNames : TagRaceCreate(n) /\ UNCHANGED NotTagRace
    \/ \E kind \in TransientKinds : TagRaceAttach(kind) /\ UNCHANGED NotTagRace
    \/ \E ok \in BOOLEAN : TagRaceFirstListing(ok) /\ UNCHANGED NotTagRace
    \/ TagRaceSleepEnds /\ UNCHANGED NotTagRace
    \/ \E ok \in BOOLEAN :
         SecondListing(ok) /\ UNCHANGED raVars /\ UNCHANGED NotTagRace
    \/ \E deleteOk \in BOOLEAN :
         SweepTag(deleteOk) /\ UNCHANGED raVars /\ UNCHANGED NotTagRace
    \/ TagRaceTick /\ UNCHANGED NotTagRace

StartTagRace ==
    /\ RlOff
    /\ RetryOff
    /\ PoolIdle
    /\ ScaleOutIdle
    /\ TargetIdle
    /\ SweeperIdle
    /\ CloudInitIdle
    /\ ScaleInIdle
    /\ TransientIdle
    /\ CreateRateIdle
    /\ PoolRegionIdle
    /\ TagNameIdle
    /\ StableIdle
    /\ ShutdownIdle
    /\ DeleteIdle
    /\ UnpaginateIdle
    /\ TagRaceIdle
    /\ LeaseIdle
    /\ ConsumersIdle

SpecTagRace == StartTagRace /\ [][NextTagRace]_vars

NextLease ==
    \/ ProviderAdds("v4") /\ UNCHANGED leVars /\ UNCHANGED NotLease
    \/ \E c \in Calls, diff \in 1..MaxCount, picked \in SUBSET Addrs :
         LeasePrereserve(c, diff, picked) /\ UNCHANGED rlVars /\ UNCHANGED NotLease
    \/ \E c \in Calls, ip \in Addrs, outcome \in {"ok", "fail"} :
         LeaseAssign(c, ip, outcome) /\ UNCHANGED rlVars /\ UNCHANGED NotLease
    \/ \E c \in Calls : LeaseReturn(c) /\ UNCHANGED rlVars /\ UNCHANGED NotLease
    \/ LeaseTick /\ UNCHANGED rlVars /\ UNCHANGED NotLease

StartLease ==
    /\ RlOff
    /\ RetryOff
    /\ PoolIdle
    /\ ScaleOutIdle
    /\ TargetIdle
    /\ SweeperIdle
    /\ CloudInitIdle
    /\ ScaleInIdle
    /\ TransientIdle
    /\ CreateRateIdle
    /\ PoolRegionIdle
    /\ TagNameIdle
    /\ StableIdle
    /\ ShutdownIdle
    /\ DeleteIdle
    /\ UnpaginateIdle
    /\ TagRaceIdle
    /\ LeaseIdle
    /\ ConsumersIdle

SpecLease == StartLease /\ [][NextLease]_vars

NextConsumers ==
    \/ \E c \in Callers : CallerLocks(c) /\ UNCHANGED NotConsumers
    \/ \E c \in Callers : CallerConsumes(c) /\ UNCHANGED NotConsumers
    \/ \E c \in Callers : CallerTimer(c) /\ UNCHANGED NotConsumers
    \/ RlTick /\ UNCHANGED rcVars /\ UNCHANGED NotConsumers

\* NewRateLimiter(burst, rechargePeriod, true): the limiter created full.
StartConsumers ==
    /\ InitLimiter
    /\ current = burst
    /\ RetryOff
    /\ PoolIdle
    /\ ScaleOutIdle
    /\ TargetIdle
    /\ SweeperIdle
    /\ CloudInitIdle
    /\ ScaleInIdle
    /\ TransientIdle
    /\ CreateRateIdle
    /\ PoolRegionIdle
    /\ TagNameIdle
    /\ StableIdle
    /\ ShutdownIdle
    /\ DeleteIdle
    /\ UnpaginateIdle
    /\ TagRaceIdle
    /\ LeaseIdle
    /\ ConsumersIdle

SpecConsumers == StartConsumers /\ [][NextConsumers]_vars

(***************************************************************************)
(* Properties of the reserved-address pool (SpecPool)                      *)
(***************************************************************************)

\* A step in which a pool call returns.  (A call that repeats the previous
\* failure in every respect leaves all pool variables as they were.)
PoolCallStep == poolRes' # poolRes \/ prereservedIPs' # prereservedIPs

\* C1: an address whose pre-reservation has not expired (and which no Assign
\* has consumed, so that it is still in the map) is never in the result of a
\* later pre-reserve call of its family; in particular, when the addresses of
\* the previous successful pre-reserve call are all still pre-reserved, the
\* two results are disjoint and hold count + count distinct addresses.
C1_LiveNeverReturned ==
    [][(PoolCallStep /\ poolRes'.op = "prereserve" /\ poolRes'.ok) =>
         LET pre == prereservedIPs[poolRes'.fam]
             live == {a \in DOMAIN pre : pre[a] >= now}
         IN /\ poolRes'.addrs \cap live = {}
            /\ (/\ poolRes.op = "prereserve"
                /\ poolRes.ok
                /\ poolRes.fam = poolRes'.fam
                /\ poolRes.addrs \subseteq live)
               => /\ poolRes.addrs \cap poolRes'.addrs = {}
                  /\ Cardinality(poolRes.addrs \cup poolRes'.addrs)
                       = poolRes.count + poolRes'.count]_vars

\* A pre-reserve call has just succeeded while another address of the same
\* family was under a live pre-reservation, and did not return it.
C1_Witness ==
    /\ poolRes.op = "prereserve"
    /\ poolRes.ok
    /\ \E a \in DOMAIN prereservedIPs[poolRes.fam] :
         /\ a \notin poolRes.addrs
         /\ prereservedIPs[poolRes.fam][a] >= now

\* C2: Assign succeeds only if, when it is called, the address has a
\* pre-reservation whose expiry has not passed, and on success that
\* pre-reservation is gone from the map; an Assign on an address whose
\* pre-reservation has expired fails with the "not prereserved" error and
\* leaves the provider untouched.
C2_AssignNeedsLivePrereservation ==
    [][(PoolCallStep /\ poolRes'.op = "assign") =>
         LET f == poolRes'.fam
             ip == poolRes'.ip
             pre == prereservedIPs[f]
         IN /\ poolRes'.ok =>
                 /\ ip \in DOMAIN pre
                 /\ pre[ip] >= now
                 /\ ip \notin DOMAIN prereservedIPs'[f]
            /\ (ip \in DOMAIN pre /\ pre[ip] < now) =>
                 /\ ~poolRes'.ok
                 /\ poolRes'.err = "not prereserved"
                 /\ reservedIPs' = reservedIPs
                 /\ prereservedIPs' = prereservedIPs]_vars

\* An Assign has just been refused on an address whose expired
\* pre-reservation is still in the map.
C2_Witness ==
    /\ poolRes.op = "assign"
    /\ poolRes.err = "not prereserved"
    /\ poolRes.ip \in DOMAIN prereservedIPs[poolRes.fam]
    /\ prereservedIPs[poolRes.fam][poolRes.ip] < now

\* C3: once an Assign on an address has succeeded, no Assign on that address
\* succeeds for as long as the provider keeps reporting it assigned.
C3_NoSecondAssignWhileAssigned ==
    [][(PoolCallStep /\ poolRes'.op = "assign" /\ poolRes'.ok) =>
         /\ poolRes'.ip \notin held[poolRes'.fam]
         /\ reservedIPs[poolRes'.fam][poolRes'.ip] = NoDroplet]_vars

\* An Assign has just failed on an address an earlier Assign succeeded on
\* and the provider still reports assigned.
C3_Witness ==
    /\ poolRes.op = "assign"
    /\ ~poolRes.ok
    /\ poolRes.ip \in held[poolRes.fam]

\* C4: a pre-reserve call is all-or-nothing.  On success it returns exactly
\* count distinct addresses of the provider, has created exactly the
\* addresses among them that did not exist before, and the map differs from
\* the one before the call exactly in that each returned address is recorded
\* with expiry time now + expiry.  Otherwise it fails with the list, the
\* insufficient-addresses or the create error and both maps are as before.
C4_AllOrNothing ==
    [][(PoolCallStep /\ poolRes'.op = "prereserve") =>
         LET f == poolRes'.fam
             pre == prereservedIPs[f]
             post == prereservedIPs'[f]
             got == poolRes'.addrs
         IN /\ \A g \in Fams \ {f} : prereservedIPs'[g] = prereservedIPs[g]
            /\ IF poolRes'.ok
               THEN /\ poolRes'.count >= 1
                    /\ Cardinality(got) = poolRes'.count
                    /\ got \subseteq DOMAIN reservedIPs'[f]
                    /\ Len(reservedIPs'[f]) - Len(reservedIPs[f])
                         = Cardinality(got \ DOMAIN reservedIPs[f])
                    /\ DOMAIN post = (DOMAIN pre) \cup got
                    /\ \A a \in got : post[a] = now' + poolRes'.expiry
                    /\ \A a \in (DOMAIN pre) \ got : post[a] = pre[a]
               ELSE /\ poolRes'.err \in {"list", "insufficient", "create"}
                    /\ post = pre]_vars

\* C25: when AssignIPv4 / AssignIPv6 finds a pre-reservation that has not
\* expired, the pre-reservation is gone from the map when the call returns,
\* whether the provider's Assign succeeded or failed; an Assign of the same
\* address right after it, with no pre-reserve call in between, fails with
\* the "not prereserved" error.
C25_AssignConsumesPrereservation ==
    [][(PoolCallStep /\ poolRes'.op = "assign") =>
         LET f == poolRes'.fam
             ip == poolRes'.ip
             pre == prereservedIPs[f]
         IN /\ (ip \in DOMAIN pre /\ ~(now > pre[ip])) =>
                 /\ ip \notin DOMAIN prereservedIPs'[f]
                 /\ poolRes'.ok \/ poolRes'.err = "assign"
            /\ (/\ poolRes.op = "assign"
                /\ poolRes.err # "not prereserved"
                /\ poolRes.fam = f
                /\ poolRes.ip = ip) =>
                 /\ ~poolRes'.ok
                 /\ poolRes'.err = "not prereserved"]_vars

\* The provider's Assign has just failed for an address with a live
\* pre-reservation, and the pre-reservation is gone.
C25_Witness ==
    /\ poolRes.op = "assign"
    /\ poolRes.err = "assign"
    /\ poolRes.ip \in DOMAIN reservedIPs[poolRes.fam]
    /\ poolRes.ip \notin DOMAIN prereservedIPs[poolRes.fam]

\* C24: after any pre-reserve call returns, the map of its family holds no
\* entry whose expiry had already passed when the call started.
C24_ExpiredEntriesCollected ==
    [][(PoolCallStep /\ poolRes'.op = "prereserve") =>
         \A a \in DOMAIN prereservedIPs'[poolRes'.fam] :
           ~(now > prereservedIPs'[poolRes'.fam][a])]_vars

\* C24, amended: a pre-reserve call removes no entry.  An entry whose expiry
\* had passed when the call started is recorded anew, with expiry time
\* now + expiry, when the call returns its address, and is otherwise still
\* in the map as it was.
C24_ExpiredEntriesKeptOrRenewed ==
    [][(PoolCallStep /\ poolRes'.op = "prereserve") =>
         LET pre == prereservedIPs[poolRes'.fam]
             post == prereservedIPs'[poolRes'.fam]
         IN \A a \in DOMAIN pre :
              now > pre[a] =>
                /\ a \in DOMAIN post
                /\ post[a] = IF poolRes'.ok /\ a \in poolRes'.addrs
                             THEN now' + poolRes'.expiry
                             ELSE pre[a]]_vars

\* A pre-reserve call made at the last tick has returned other addresses
\* than one whose pre-reservation had expired, and that entry is still there.
C24_Witness ==
    /\ poolRes.op = "prereserve"
    /\ poolRes.ok
    /\ now = PoolMaxTime
    /\ LET pre == prereservedIPs[poolRes.fam]
       IN /\ \E b \in poolRes.addrs : pre[b] > now
          /\ \E a \in (DOMAIN pre) \ poolRes.addrs : now > pre[a]

\* A pre-reserve call has just failed at a Create after an earlier Create of
\* the same call had succeeded.
C4_Witness ==
    /\ poolRes.op = "prereserve"
    /\ poolRes.err = "create"
    /\ poolRes.created >= 1

(***************************************************************************)
(* Properties of the rate limiter (SpecLimiter)                            *)
(***************************************************************************)

\* The recharge instants next, next + p, ... that a clock reading t has
\* reached.
RechargesDue(next, t, p) == IF t < next THEN 0 ELSE ((t - next) \div p) + 1

\* C7: Consume first credits one token for every recharge instant
\* (nextCheck, nextCheck + P, ...) the clock has reached, capped at the
\* burst; if a token is then available it returns at once with the count
\* decremented; if none is, it blocks exactly until nextCheck and then
\* returns.  With burst 2, period 5 and a full start: calls one and two
\* return at once, call three at 5; 8 later, at 13, the next call returns at
\* once and the one after it at 15.
C7_ConsumeCreditsThenTakesOrBlocks ==
    rlRes.kind # "none" =>
      LET avail == Min(burst, rlRes.preCurrent
                         + RechargesDue(rlRes.preNext, rlRes.start, rechargePeriod))
      IN /\ rlRes.waitCurrent = avail
         /\ (rlRes.kind = "immediate") <=> (avail > 0)
         /\ rlRes.kind = "immediate" =>
              /\ rlRes.end = rlRes.start
              /\ current = avail - 1
         /\ rlRes.kind = "blocked" =>
              /\ rlRes.end = rlRes.waitNext
              /\ rlRes.end > rlRes.start
              /\ rlRes.waitNext = IF burst = 0 THEN rlRes.start + rechargePeriod
                                  ELSE rlRes.preNext
              /\ current = 0
         /\ (burst = 2 /\ rechargePeriod = 5 /\ rlRes.preCurrent = 2
               /\ rlRes.start = 0) => rlRes.kind = "immediate"
         /\ (burst = 2 /\ rechargePeriod = 5 /\ rlRes.preCurrent = 1
               /\ rlRes.start = 0) => rlRes.kind = "immediate"
         /\ (burst = 2 /\ rechargePeriod = 5 /\ rlRes.preCurrent = 0
               /\ rlRes.preNext = 5 /\ rlRes.start = 0 /\ rlRes.kind = "blocked")
              => (rlRes.end = 5 /\ nextCheck = 10)
         /\ (burst = 2 /\ rechargePeriod = 5 /\ rlRes.preCurrent = 0
               /\ rlRes.preNext = 10 /\ rlRes.start = 13)
              => (rlRes.kind = "immediate" /\ nextCheck = 15 /\ current = 0)
         /\ (burst = 2 /\ rechargePeriod = 5 /\ rlRes.preCurrent = 0
               /\ rlRes.preNext = 15 /\ rlRes.start = 13 /\ rlRes.kind = "blocked")
              => rlRes.end = 15

\* The last call of the example: with burst 2 and period 5, a Consume that
\* started at 13 with no token and nextCheck 15 has returned at 15.
C7_Witness ==
    /\ burst = 2
    /\ rechargePeriod = 5
    /\ rlRes.kind = "blocked"
    /\ rlRes.preCurrent = 0
    /\ rlRes.preNext = 15
    /\ rlRes.start = 13
    /\ rlRes.end = 15

\* C8: when the context is cancelled while Consume waits, the call returns
\* with the token count and nextCheck as they were when the wait began, and
\* the awaited token is still there for the next Consume: a Consume that
\* follows once nextCheck has been reached returns at once.
C8_CancelledWaitConsumesNothing ==
    [][/\ (rlRes.kind = "waiting" /\ rlRes'.kind = "cancelled") =>
            /\ current' = rlRes.waitCurrent
            /\ nextCheck' = rlRes.waitNext
            /\ current' = current
            /\ nextCheck' = nextCheck
       /\ (/\ rlRes.kind = "cancelled"
           /\ rlRes'.kind \notin {"cancelled", "none"}
           /\ burst > 0
           /\ now >= rlRes.waitNext)
          => (rlRes'.kind = "immediate" /\ rlRes'.start = now)]_vars

\* A wait was cancelled before its timer was due.
C8_Witness ==
    /\ rlRes.kind = "cancelled"
    /\ rlRes.end < rlRes.waitNext
    /\ burst > 0

(***************************************************************************)
(* Properties of the retry engine (SpecRetry)                              *)
(***************************************************************************)

\* C5: retry returns nil exactly when some invocation of f returned nil,
\* and with retryAttempts >= 1 it invokes f at most retryAttempts times.
C5_NilIffFNilAndBounded ==
    /\ rtPc = "done" => ((rtResult.kind = "nil") <=> fNil)
    /\ retryAttempts >= 1 => fCalls <= retryAttempts

\* retry has returned nil from the last attempt it was allowed, after at
\* least one failed attempt.
C5_Witness ==
    /\ rtPc = "done"
    /\ rtResult.kind = "nil"
    /\ retryAttempts >= 2
    /\ fCalls = retryAttempts

\* C6: when every one of the retryAttempts invocations of f fails and the
\* context is never cancelled, retry returns the "reached retry limit" error
\* and the last error f returned is in that error's chain.
C6_LimitErrorWrapsLast ==
    (/\ rtPc = "done"
     /\ retryAttempts >= 1
     /\ fCalls = retryAttempts
     /\ ~fNil
     /\ ctxCause = NoErr)
    => (rtResult.kind = "limit" /\ fLast \in rtResult.chain)

\* f passed a cause to the cancel handle before anyone else cancelled.
CancelledByF == ctxCause \notin {NoErr, ErrCanceled}

\* C19: when f invokes the cancel handle with a cause and returns an error,
\* retry stops without invoking f again and returns an error whose chain
\* holds that cause and the error f returned last.
C19_CancelByFReturnsCauseAndLast ==
    (CancelledByF /\ fLast = FErr(fCalls)) =>
      /\ rtPc = "done"
      /\ rtResult.kind = "cancelled"
      /\ ctxCause \in rtResult.chain
      /\ fLast \in rtResult.chain

\* C20: once the caller's context is cancelled retry starts no new attempt:
\* cancelled at entry, f is never invoked; cancelled while retry waits
\* between attempts, f is not invoked again.
C20_NoAttemptAfterCallerCancels ==
    [][/\ rtResult'.kind = "ctx" => fCalls' = 0
       /\ waitCancelled => fCalls' = fCalls]_vars

\* C21: RetryOnTransientError invokes f again only after f failed with a
\* provider error response of status 422; after any other error f is not
\* invoked again and the call returns an error; f is invoked at most 30
\* times.
C21_RetriesOnlyAfter422 ==
    [][/\ (fCalls' > fCalls /\ fCalls > 0) => fKind = "422"
       /\ fKind' \in {"500", "other"} =>
            /\ rtPc' = "done"
            /\ rtResult'.kind \notin {"none", "nil"}
       /\ fKind \in {"500", "other"} => fCalls' = fCalls
       /\ fCalls' <= TransientAttempts]_vars

\* f failed with a 422 thirty times and RetryOnTransientError gave up.
C21_Witness ==
    /\ fKind = "422"
    /\ fCalls = TransientAttempts
    /\ rtPc = "done"
    /\ rtResult.kind = "limit"

\* C22: the pool's limiter (burst 12, recharge 5 s, full at the start)
\* admits at most 12 provider Create calls in any window of 60 seconds.
C22_AtMostTwelvePerMinute ==
    \A from \in 0..PoolMaxTime : CreatedIn(from, CreateWindow) <= CreateLimit

\* C23: every address a successful PrereserveIPs / PrereserveIPV6s call
\* returns is an address of the region the call asked for, also when the
\* account holds unassigned reserved addresses of other regions.
C23_ReturnsAddressesOfTheRegion ==
    (poolRes.op = "prereserve" /\ poolRes.ok) =>
      \A a \in poolRes.addrs : ipRegion[poolRes.fam][a] = callRegion

(***************************************************************************)
(* Properties of scale-out (SpecScaleOut)                                  *)
(***************************************************************************)

\* C9: when scaleOut has finished its creation phase and no task failed,
\* exactly diff tasks were launched and exactly diff Create requests were
\* issued, one per task, each with the template's region, size, VPC and
\* image and the template's tags, the group name among them; and with no
\* user data and no secure introduction configured the user data of every
\* request is empty.
C9_CleanScaleOutCreatesDiffWorkers ==
    (/\ soPc = "done"
     /\ soResult.kind = "created"
     /\ \A i \in Tasks : taskErr[i] = NoTaskErr)
    => /\ {i \in Tasks : taskPc[i] # "off"} = 1..soDiff
       /\ Cardinality(requests) = soDiff
       /\ {r.task : r \in requests} = 1..soDiff
       /\ \A r \in requests :
            /\ r.region = soTemplate.region
            /\ r.size = soTemplate.size
            /\ r.vpc = soTemplate.vpc
            /\ r.image = soTemplate.snapshotID
            /\ r.tags = soTemplate.tags
            /\ \E k \in DOMAIN r.tags : r.tags[k] = soTemplate.name
            /\ (soTemplate.userData = ""
                  /\ ~soTemplate.secureIntroductionAppRole)
               => r.userData = EmptyUserData

\* scaleOut for two workers, configured tags, no user data and no secure
\* introduction has finished its creation phase without a failed task.
C9_Witness ==
    /\ soPc = "done"
    /\ soResult.kind = "created"
    /\ soDiff >= 2
    /\ \A i \in Tasks : taskErr[i] = NoTaskErr
    /\ Cardinality(requests) = soDiff
    /\ Len(soTemplate.tags) > 1
    /\ soTemplate.userData = ""
    /\ ~soTemplate.secureIntroductionAppRole

\* C10: when scaleOut returns from its creation phase every task has
\* finished, the error of every failed task is in the returned join, once
\* in the collected list, and scaleOut goes on without an error only if no
\* task failed.
C10_EveryTaskErrorJoined ==
    (soPc = "done" /\ soResult.kind \in {"created", "joined"})
    => /\ \A i \in 1..soDiff : taskPc[i] # "run"
       /\ \A i \in 1..soDiff :
            taskErr[i] # NoTaskErr =>
              /\ taskErr[i] \in soResult.errors
              /\ Cardinality({k \in DOMAIN errorList : errorList[k] = taskErr[i]}) = 1
       /\ soResult.kind = "created" => \A i \in 1..soDiff : taskErr[i] = NoTaskErr

\* scaleOut's template delivers the credential by tag only: approle and
\* tag prefix configured, no address reservation.
TagChannelOnly ==
    /\ soTemplate.secureIntroductionAppRole
    /\ soTemplate.secureIntroductionTagPrefix
    /\ ~soTemplate.reserveIPv4Addresses
    /\ ~soTemplate.reserveIPv6Addresses

\* Droplets().Create of task i returned a droplet.
CreatedOk(i) ==
    \E k \in DOMAIN calls[i] : calls[i][k].op = "Create" /\ calls[i][k].ok

\* The tag that binds a credential to the addresses of task i's droplet.
WorkerTag(i) ==
    TagWithSecretID(soTemplate.secureIntroductionTagPrefix,
                    GenerateSecretId(DropletV4(i),
                                     IF soTemplate.ipv6 THEN DropletV6(i)
                                     ELSE NoAddr))

\* The calls of task i follow the order of the tag phase: the droplet's
\* addresses are awaited, one credential is issued for them, the tag is
\* created and attached, all after Create returned the droplet.
TagPhaseInOrder(i) ==
    LET ops == [k \in DOMAIN calls[i] |-> calls[i][k].op]
        full == <<"Create", "Get", "GenerateSecretId", "Tags.Create",
                  "TagResources">>
    IN /\ Len(ops) <= Len(full)
       /\ ops = SubSeq(full, 1, Len(ops))
       /\ \A k \in DOMAIN calls[i] :
            k > 1 => /\ calls[i][1].ok
                     /\ calls[i][k].ipv4 = DropletV4(i)
                     /\ calls[i][k].ipv6 = WorkerTag(i).secret.ipv6
       /\ workerTags[i] \subseteq {WorkerTag(i)}
       /\ (taskPc[i] = "exit" /\ taskErr[i] = NoTaskErr)
            => (ops = full /\ workerTags[i] = {WorkerTag(i)})

\* C11: with approle and tag prefix configured and no address reservation,
\* every task runs the tag phase in order after its Create returned, for
\* the droplet it created, and when scaleOut returns nil every droplet
\* created carries the tag made of the prefix and its credential.
C11_CreatedWorkersCarryTheirTag ==
    TagChannelOnly =>
      \A i \in 1..soDiff :
        /\ TagPhaseInOrder(i)
        /\ (soPc = "returned" /\ soResult.kind = "nil" /\ CreatedOk(i))
             => WorkerTag(i) \in workerTags[i]

\* C12: with an approle and a filename configured, the user data of every
\* Create request either has the script that writes a credential issued for
\* the task's pre-reserved address(es), or has the tag-polling script; it is
\* never the original user data alone.
C12_SecureUserDataModified ==
    (soTemplate.secureIntroductionAppRole
       /\ soTemplate.secureIntroductionFilename)
    => \A r \in requests :
         \/ /\ r.userData.script = "secret"
            /\ r.userData.ipv4 = IF soTemplate.reserveIPv4Addresses
                                 THEN prereservedIPV4s[r.task] ELSE NoAddr
            /\ r.userData.ipv6 = IF soTemplate.reserveIPv6Addresses
                                 THEN prereservedIPV6s[r.task] ELSE NoAddr
            /\ r.userData.ipv4 # NoAddr \/ r.userData.ipv6 # NoAddr
         \/ r.userData.script = "tagfetch"

\* C26: with an approle, a filename and an address reservation configured,
\* task i calls the credential issuer, before anything else, with
\* prereservedIPV4s[i] as allowed IPv4 address exactly when reserve_ipv4 is
\* set and prereservedIPV6s[i] as allowed IPv6 address exactly when
\* reserve_ipv6 is set, and with no address otherwise.
C26_CredentialBoundToReservedAddresses ==
    (/\ soTemplate.secureIntroductionAppRole
     /\ soTemplate.secureIntroductionFilename
     /\ soTemplate.reserveIPv4Addresses \/ soTemplate.reserveIPv6Addresses)
    => \A i \in Tasks :
         taskPc[i] \in {"send", "exit", "panic"} =>
           /\ calls[i] # <<>>
           /\ calls[i][1].op = "GenerateSecretId"
           /\ calls[i][1].ipv4 = IF soTemplate.reserveIPv4Addresses
                                 THEN prereservedIPV4s[i] ELSE NoAddr
           /\ calls[i][1].ipv6 = IF soTemplate.reserveIPv6Addresses
                                 THEN prereservedIPV6s[i] ELSE NoAddr

\* The credential of task i was issued before its droplet was created, for
\* the script of the user data.
IssuedBeforeBoot(i) ==
    /\ calls[i] # <<>>
    /\ calls[i][1].op = "GenerateSecretId"
    /\ calls[i][1].ok

\* The calls of task i after its first one that issue a credential or
\* create a tag.
LaterIssues(i) ==
    {k \in DOMAIN calls[i] : k > 1 /\ calls[i][k].op = "GenerateSecretId"}

LaterTags(i) ==
    {k \in DOMAIN calls[i] : k > 1 /\ calls[i][k].op = "Tags.Create"}

CreateAt(i) ==
    IF \E k \in DOMAIN calls[i] : calls[i][k].op = "Create"
    THEN CHOOSE k \in DOMAIN calls[i] : calls[i][k].op = "Create"
    ELSE 0

\* C32: a task makes a call only once both pre-reserve calls have returned
\* the addresses of the call; its AssignIPv4, AssignIPv6 and the calls of
\* its tag phase come after its Create returned a droplet; and a task
\* whose Create failed makes no further call.
C32_PrereserveCreateAssignTagOrder ==
    \A i \in Tasks :
      /\ calls[i] # <<>> =>
           /\ soPc # "idle"
           /\ soTemplate.reserveIPv4Addresses => Len(prereservedIPV4s) = soDiff
           /\ soTemplate.reserveIPv6Addresses => Len(prereservedIPV6s) = soDiff
      /\ Cardinality({k \in DOMAIN calls[i] : calls[i][k].op = "Create"}) <= 1
      /\ \A k \in DOMAIN calls[i] :
           (\/ calls[i][k].op \in {"AssignIPv4", "AssignIPv6", "Get",
                                   "Tags.Create", "TagResources"}
            \/ calls[i][k].op = "GenerateSecretId" /\ k > 1)
           => /\ CreateAt(i) \in 1..(k - 1)
              /\ calls[i][CreateAt(i)].ok
      /\ (CreateAt(i) > 0 /\ ~calls[i][CreateAt(i)].ok) => Len(calls[i]) = CreateAt(i)

\* One task assigned both addresses and attached its tag after its Create,
\* another task's Create failed.
C32_Witness ==
    \E i, j \in Tasks :
      /\ CreatedOk(i)
      /\ \E k \in DOMAIN calls[i] : calls[i][k].op = "AssignIPv4" /\ calls[i][k].ok
      /\ \E k \in DOMAIN calls[i] : calls[i][k].op = "AssignIPv6" /\ calls[i][k].ok
      /\ \E k \in DOMAIN calls[i] : calls[i][k].op = "TagResources" /\ calls[i][k].ok
      /\ CreateAt(j) > 0
      /\ ~calls[j][CreateAt(j)].ok

\* Task j made every call of its path, each returning without error.
RanToCompletion(j) ==
    /\ taskPc[j] \notin {"off", "run"}
    /\ Len(calls[j]) = Len(Stages(soTemplate))
                       + (IF IssuedBeforeBoot(j) THEN 1 ELSE 0)
    /\ \A k \in DOMAIN calls[j] : calls[j][k].ok
    /\ \E r \in requests : r.task = j

\* C33: once a task has failed, no other task is cut short (the process
\* does not end while a peer has still to run), a peer that returns nil
\* has made every call of its own path, and when scaleOut returns the
\* joined errors every task has finished its calls and the droplets the
\* other tasks created are still there.
C33_FailureDoesNotAbortPeers ==
    \A i \in 1..soDiff :
      taskErr[i] # NoTaskErr =>
        \A j \in (1..soDiff) \ {i} :
          /\ ~(crashed /\ taskPc[j] = "run")
          /\ (taskPc[j] \notin {"off", "run"} /\ taskErr[j] = NoTaskErr)
               => RanToCompletion(j)
          /\ soResult.kind = "joined" =>
               /\ taskPc[j] # "run"
               /\ CreatedOk(j) => \E r \in requests : r.task = j

\* scaleOut returned the joined error of a failed task while the other
\* task had created its droplet and made all its calls.
C33_Witness ==
    /\ soResult.kind = "joined"
    /\ \E i, j \in 1..soDiff :
         /\ taskErr[i] # NoTaskErr
         /\ taskErr[i] \in soResult.errors
         /\ taskErr[j] = NoTaskErr
         /\ CreatedOk(j)
         /\ RanToCompletion(j)

\* C36: the error channel is closed only after every failing task has
\* delivered its error, so no task has a send pending on the closed channel
\* and no task panics on it.
C36_NoSendAfterClose ==
    \A i \in Tasks :
      /\ chanClosed => taskPc[i] # "send"
      /\ ~(taskPc[i] = "panic" /\ taskErr[i] # NoTaskErr)

\* C37: no task ends in an index out of range, whatever the accepted
\* template and diff: a task panics only on its send (C36), having failed
\* with an error, never while it reads prereservedIPV4s[i] or
\* prereservedIPV6s[i].
C37_NoIndexOutOfRange ==
    \A i \in Tasks : taskPc[i] = "panic" => taskErr[i] # NoTaskErr

(***************************************************************************)
(* Properties of Scale and Status (SpecTarget)                             *)
(***************************************************************************)

\* An approle with no way to deliver the credential: no tag prefix and no
\* reserved address of either family.
NoDeliveryChannel(c) ==
    /\ c.approle
    /\ ~c.tagPrefix
    /\ ~c.reserveIPv4
    /\ ~c.reserveIPv6

\* C13: Scale, when not a dry run, with an approle, no tag prefix and no
\* address reservation returns the error of createDropletTemplate without
\* any provider call; and every template createDropletTemplate returns
\* with an approle and no tag prefix reserves IPv4 or IPv6 addresses.
C13_NoChannelRejected ==
    /\ (tpOp = "scale" /\ ~tpInput.dryRun /\ NoDeliveryChannel(tpInput.config))
       => /\ tpPc = "done"
          /\ tpResult.kind = "template error"
          /\ tpListCalls = 0
          /\ tpTemplate = NoTemplate
    /\ tpTemplate # NoTemplate
       => ((tpTemplate.secureIntroductionAppRole
              /\ ~tpTemplate.secureIntroductionTagPrefix)
           => (tpTemplate.reserveIPv4Addresses
                 \/ tpTemplate.reserveIPv6Addresses))

\* Scale has returned the template error for such a configuration.
C13_Witness ==
    /\ tpOp = "scale"
    /\ tpPc = "done"
    /\ NoDeliveryChannel(tpInput.config)
    /\ tpResult.kind = "template error"

(***************************************************************************)
(* Properties of the orphan sweeper (SpecSweeper)                          *)
(***************************************************************************)

\* C14: the sweeper never deletes a droplet that does not carry the
\* template name, is not older than the grace period, or is whitelisted;
\* and when it is done it has deleted every droplet with the template name
\* that is older than the grace period and not whitelisted.
C14_DeletesOldUnlistedOnly ==
    LET in == swInput IN
    /\ \A d \in swDeleted :
         /\ in.droplets[d].tagged
         /\ in.droplets[d].age > in.grace
         /\ d \notin in.whitelist
    /\ swPc = "done"
       => \A d \in OrphanIDs :
            (in.droplets[d].tagged /\ in.droplets[d].age > in.grace
               /\ d \notin in.whitelist)
            => d \in swDeleted

\* The sweeper is done: it deleted an old droplet that was not whitelisted
\* and kept one that was young or whitelisted.
C14_Witness ==
    /\ swPc = "done"
    /\ \E d, w \in OrphanIDs :
         /\ d # w
         /\ swInput.droplets[d].tagged /\ swInput.droplets[w].tagged
         /\ swInput.droplets[d].age > swInput.grace
         /\ d \notin swInput.whitelist
         /\ d \in swDeleted
         /\ (swInput.droplets[w].age <= swInput.grace \/ w \in swInput.whitelist)
         /\ w \notin swDeleted

\* The droplets on the pages ListByTag returned, as page and position.
Listed == {pk \in (DOMAIN tpPages) \X (1..MaxPageSize) :
             pk[2] \in DOMAIN tpPages[pk[1]]}

\* C15: when the readiness check reports not ready, Status returns
\* ready = false without any ListByTag call; when it reports ready and
\* Status returns a status, count is the number of droplets on all the
\* pages listed and ready says whether all of them are active.
C15_StatusCountsAllPages ==
    tpOp = "status" =>
      /\ ~tpInput.poolReady
         => /\ tpPc = "done"
            /\ tpListCalls = 0
            /\ tpResult.kind \in {"status", "readiness error"}
            /\ ~tpResult.ready
      /\ (tpInput.poolReady /\ tpPc = "done" /\ tpResult.kind = "status")
         => /\ tpResult.count = Cardinality(Listed)
            /\ tpResult.ready
                 = (Cardinality(Listed)
                      = Cardinality({pk \in Listed :
                                       tpPages[pk[1]][pk[2]] = "active"}))

\* Status has returned the count of two pages of droplets, not all active.
C15_Witness ==
    /\ tpOp = "status"
    /\ tpPc = "done"
    /\ tpResult.kind = "status"
    /\ Len(tpPages) >= 2
    /\ \A p \in DOMAIN tpPages : tpPages[p] # <<>>
    /\ tpResult.count = Cardinality(Listed)
    /\ ~tpResult.ready

(***************************************************************************)
(* Properties of the user data (SpecCloudInit)                             *)
(***************************************************************************)

\* The parts an accepted original is made of: none when it is empty, the
\* trimmed script when it is a script, its own parts when it is an archive.
PartsOf(original) ==
    IF original.format = "archive" THEN original.parts
    ELSE IF original.format = "script"
    THEN <<CloudConfigPart("text/x-shellscript", TrimRight(original.text))>>
    ELSE <<>>

AcceptedOriginal(original) ==
    \/ original.format \in {"empty", "script"}
    \/ original.format = "archive" /\ original.parts # <<>>

\* C16: PrependShellScriptToUserData(original, k) on an accepted original
\* (empty or white space, a script, an archive of n parts) yields an archive
\* whose first part has type text/x-shellscript and content k and whose
\* other parts are, in order, the parts of the original, each content
\* compared without its trailing blank lines; MIME multipart and any other
\* format yield an error.
C16_PrependKeepsScriptAndParts ==
    ciPc = "done" =>
      LET original == ciInput.original
          parts == PartsOf(original)
          archive == ciResult.archive
      IN IF AcceptedOriginal(original)
         THEN /\ ciResult.ok
              /\ Len(archive) = 1 + Len(parts)
              /\ archive[1].type = "text/x-shellscript"
              /\ archive[1].content = TrimRight(ciInput.script)
              /\ \A j \in DOMAIN parts :
                   /\ archive[j + 1].type = parts[j].type
                   /\ archive[j + 1].content = TrimRight(parts[j].content)
         ELSE ~ciResult.ok

(***************************************************************************)
(* Properties of scale in and the tag clean-up (SpecScaleIn)               *)
(***************************************************************************)

\* C17: a run of the tag clean-up deletes a tag only if its name starts
\* with the prefix, the first listing (before the sleep) had it and the
\* second listing (after the sleep) reports no resource for it: a tag first
\* seen in the second listing, or one with a resource, is never deleted.
C17_DeletesOldUnusedPrefixedOnly ==
    \A name \in tsDeleted :
      /\ HasPrefix(name, siTagPrefix) /\ siTagPrefix # ""
      /\ name \in tsFirst
      /\ tsListing[name].listed
      /\ tsListing[name].count = 0

\* The run deleted a tag and kept a tag of the prefix that has no resource
\* and was first seen in the second listing.
C17_Witness ==
    /\ tsPc = "done"
    /\ tsDeleted # {}
    /\ \E name \in TagNames \ tsDeleted :
         /\ HasPrefix(name, siTagPrefix)
         /\ name \notin tsFirst
         /\ tsListing[name] = Tag(TRUE, 0)

\* The call op is in the log of scaleIn at position k, with outcome ok.
Logged(k, op, ok) ==
    k \in DOMAIN siLog /\ siLog[k] = [op |-> op, ok |-> ok]

\* C18: scaleIn invokes RunPostScaleInTasks only after the stability wait
\* returned success, which comes only after the deletion phase, which comes
\* only after the pre-hook; when the pre-hook, the deletion listing or the
\* stability wait fails, the post-hook is never invoked and the tag
\* clean-up never started.
C18_PostHookOnlyAfterStability ==
    /\ \A k \in DOMAIN siLog :
         siLog[k].op = "RunPostScaleInTasks" =>
           /\ Logged(k - 1, "ensureDropletsAreStable", TRUE)
           /\ Logged(k - 2, "deleteDroplets", TRUE)
           /\ Logged(k - 3, "RunPreScaleInTasks", TRUE)
    /\ \A k \in DOMAIN siLog :
         siLog[k].op = "ensureDropletsAreStable" =>
           /\ Logged(k - 1, "deleteDroplets", TRUE)
           /\ Logged(k - 2, "RunPreScaleInTasks", TRUE)
    /\ (\E k \in DOMAIN siLog :
          /\ siLog[k].op # "RunPostScaleInTasks"
          /\ ~siLog[k].ok) =>
         /\ \A k \in DOMAIN siLog : siLog[k].op # "RunPostScaleInTasks"
         /\ tsPc = "off"

\* scaleIn returned nil after the post-hook and started the tag clean-up.
C18_Witness ==
    /\ siPc = "returned"
    /\ siResult = "nil"
    /\ Logged(4, "RunPostScaleInTasks", TRUE)
    /\ tsPc # "off"

(***************************************************************************)
(* Properties of the tag name (SpecTagName)                                *)
(***************************************************************************)

\* C28: every tag name passed to the provider's Tags.Create and
\* TagResources by the tag phase consists only of characters of
\* [A-Za-z0-9_-:], whatever string the credential issuer returned.
C28_TagNamesInTagAlphabet ==
    \A name \in tnPassed : valid(name)

(***************************************************************************)
(* Properties of the stability wait (SpecStable)                           *)
(***************************************************************************)

\* C29: the stability wait returns nil only if its last countDroplets
\* returned without error and counted desired active droplets, a failed
\* count never yields nil, and countDroplets is called at most 15 times.
C29_SuccessOnlyAfterGoodCount ==
    /\ rtResult.kind = "nil" =>
         (stLast.made /\ ~stLast.err /\ stLast.active = stDesired)
    /\ fCalls <= defaultRetryLimit

(***************************************************************************)
(* Properties of shutdownDroplet (SpecShutdown)                            *)
(***************************************************************************)

\* C30: Delete is called only after PowerOff returned without error; after
\* a failed PowerOff the droplet is not deleted; and when the wait for
\* status "off" ended with an error (deadline, cancellation, failed poll)
\* Delete has been called by the time shutdownDroplet returns.
C30_DeleteOnlyAfterPowerOff ==
    /\ \A k \in DOMAIN sdLog :
         sdLog[k].op = "Delete" =>
           /\ k > 1
           /\ sdLog[1] = ShutdownCall("PowerOff", TRUE)
    /\ (sdLog # <<>> /\ sdLog[1] = ShutdownCall("PowerOff", FALSE)) =>
         /\ Len(sdLog) = 1
         /\ sdPc = "done"
         /\ sdResult = "error shutting down droplet"
    /\ \A k \in DOMAIN sdLog :
         sdLog[k].op = "waitForDropletState" =>
           /\ sdPc \in {"delete", "done"}
           /\ sdPc = "done" =>
                (Len(sdLog) = k + 1 /\ sdLog[k + 1].op = "Delete")

\* The droplet was deleted although it had not reached "off" when the
\* deadline of the wait came.
C30_Witness ==
    /\ sdPc = "done"
    /\ sdElapsed + PollInterval >= WaitTimeout
    /\ sdLog = <<ShutdownCall("PowerOff", TRUE),
                 ShutdownCall("waitForDropletState", FALSE),
                 ShutdownCall("Delete", TRUE)>>

(***************************************************************************)
(* Properties of deleteDroplets (SpecDelete)                               *)
(***************************************************************************)

\* C31: PowerOff and Delete are called only for droplets that carry the
\* tag of the group and whose name is in instanceIDs, every other droplet
\* is left as it was, and at most one shutdown task is started per droplet.
C31_OnlyTaggedNamedWorkersShutDown ==
    /\ \A k \in DOMAIN ddCalls :
         /\ ddDroplets[ddCalls[k].id].tagged
         /\ ddDroplets[ddCalls[k].id].name \in ddIDs
    /\ \A id \in WorkerIDs :
         /\ ddStarted[id] <= 1
         /\ (ddPc # "idle" /\ ~(ddDroplets[id].tagged /\ ddDroplets[id].name \in ddIDs))
              => (ddDroplets[id].exists /\ ddStarted[id] = 0)

\* deleteDroplets returned after deleting a droplet, with a droplet of the
\* group that was not named and a named droplet without the tag left alone.
C31_Witness ==
    /\ ddPc = "returned"
    /\ \E k \in DOMAIN ddCalls : ddCalls[k].op = "Delete" /\ ddCalls[k].ok
    /\ \E id \in WorkerIDs :
         ddDroplets[id].tagged /\ ddDroplets[id].name \notin ddIDs
    /\ \E id \in WorkerIDs :
         ~ddDroplets[id].tagged /\ ddDroplets[id].name \in ddIDs

\* C40: when deleteDroplets returns nil and no PowerOff or Delete failed,
\* a shutdown task was started for every droplet that carried the tag of
\* the group and a name of instanceIDs when deleteDroplets was called.
C40_EveryNamedWorkerShutDown ==
    (/\ ddPc = "returned"
     /\ ddResult = "nil"
     /\ \A k \in DOMAIN ddCalls : ddCalls[k].ok)
    => \A id \in WorkerIDs :
         (ddDroplets[id].tagged /\ ddDroplets[id].name \in ddIDs)
           => ddStarted[id] >= 1

(***************************************************************************)
(* Properties of Unpaginate (SpecUnpaginate)                               *)
(***************************************************************************)

\* The items of the pages from page p on, in page order then in-page order.
RECURSIVE ItemsFrom(_, _)
ItemsFrom(sizes, p) ==
    IF p > Len(sizes) THEN <<>>
    ELSE [k \in 1..sizes[p] |-> Pair(Item(p, k), FALSE)] \o ItemsFrom(sizes, p + 1)

\* The pairs yielded that carry no error.
YieldedItems == SelectSeq(upYielded, LAMBDA pair : ~pair.err)

\* C34: the pages are requested in order, each once, from the first one;
\* the items yielded are the items of the listing in page order then
\* in-page order, each once, up to where the iteration stands; an error is
\* yielded once, with the zero item, as the last pair; the iteration that
\* ends on the last page has yielded every item and no error; and once the
\* consumer has stopped or an error was yielded nothing more is requested.
C34_UnpaginateYieldsEachItemOnce ==
    /\ upRequests = [k \in 1..Len(upRequests) |-> k]
    /\ Len(upRequests) <= Len(upSizes)
    /\ Len(YieldedItems) <= Len(ItemsFrom(upSizes, 1))
    /\ YieldedItems = SubSeq(ItemsFrom(upSizes, 1), 1, Len(YieldedItems))
    /\ \A k \in DOMAIN upYielded :
         upYielded[k].err =>
           /\ k = Len(upYielded)
           /\ upYielded[k].item = ZeroItem
           /\ upResult = "error"
    /\ \A k \in DOMAIN upYielded :
         ~upYielded[k].err => upYielded[k].item.page <= Len(upRequests)
    /\ upResult = "last" =>
         /\ upYielded = ItemsFrom(upSizes, 1)
         /\ Len(upRequests) = Len(upSizes)
    /\ upResult # "none" =>
         /\ upPc = "done"
         /\ (upResult = "stopped" =>
               Len(upRequests) = upYielded[Len(upYielded)].item.page)

\* The consumer stopped on an item of the second page: the first page was
\* yielded whole and the third page was not requested.
C34_Witness ==
    /\ upResult = "stopped"
    /\ Len(upSizes) = 3
    /\ upRequests = <<1, 2>>
    /\ Len(upYielded) > upSizes[1]
    /\ upSizes[1] > 0

(***************************************************************************)
(* Properties of the clean-up beside a scale-out task (SpecTagRace)         *)
(***************************************************************************)

\* C35: the clean-up never calls Tags().Delete on a credential tag that a
\* scale-out task has created and not yet attached to its worker, the
\* attach being retried included.
C35_SweeperSparesUnattachedTag ==
    ~(raPc = "created" /\ raTag \in tsDeleted)

\* The clean-up deletes the task's tag only when the attach has been
\* pending for the whole minute of the sleep.
TagDeletedOnlyAfterAMinute ==
    (raPc = "created" /\ raTag \in tsDeleted) =>
        /\ raTag \in initialTags
        /\ raAttempts * AttachInterval >= SweepSleep

(***************************************************************************)
(* Properties of two scale-out calls on one pool (SpecLease)                *)
(***************************************************************************)

\* The addresses call c was given and has not called AssignIPv4 with.
Leased(c) == IF lePc[c] = "leased" THEN leAddrs[c] \ leTried[c] ELSE {}

\* C38 (as stated): an address PrereserveIPs gave to a scale-out call is
\* given to no other call until the first has assigned it or returned,
\* however long that takes: no two calls in flight hold the same address.
C38_LeasedToOneCall ==
    \A c, d \in Calls : c # d => Leased(c) \cap Leased(d) = {}

\* C38 (amended): an address PrereserveIPs gave to a scale-out call is given
\* to no other call until the first has called AssignIPv4 with it, has
\* returned, or the five minutes of the pre-reservation have passed.
C38_LeasedToOneCallUntilExpiry ==
    \A c, d \in Calls :
      (c # d /\ Leased(c) \cap Leased(d) # {}) =>
          \/ leAt[d] > leAt[c] + LeaseExpiry
          \/ leAt[c] > leAt[d] + LeaseExpiry

\* Two calls in flight within the five minutes, each with addresses of its
\* own.
C38_Witness ==
    /\ lePc[1] = "leased" /\ lePc[2] = "leased"
    /\ Leased(1) # {} /\ Leased(2) # {}
    /\ Leased(1) \cap Leased(2) = {}
    /\ leNow <= leAt[1] + LeaseExpiry
    /\ leNow <= leAt[2] + LeaseExpiry

(***************************************************************************)
(* Properties of concurrent callers of Consume (SpecConsumers)              *)
(***************************************************************************)

\* C39: for a limiter created full with burst B and recharge period P, with
\* no caller cancelled, at most B + floor(T/P) Consume calls have returned
\* T after the creation, and the token count stays within 0..B.
C39_ReturnedWithinBurstAndRecharge ==
    /\ rcReturned <= burst + (now \div rechargePeriod)
    /\ current \in 0..burst

\* Every token of the burst and of two recharge periods has been handed
\* out while another caller is blocked at the mutex.
C39_Witness ==
    /\ burst > 0
    /\ now >= 2 * rechargePeriod
    /\ rcReturned = burst + (now \div rechargePeriod)
    /\ \E c \in Callers : rcPc[c] = "lock"

====
